---------------------------- MODULE Spec2Model ----------------------------
(***************************************************************************)
(* Model of the jsdoc-generator traversal orchestrator (JsdocGenerator),   *)
(* its insertion sinks (TextFile over a TextEditor or a WorkspaceEdit) and *)
(* the generative description source (GenerativeAPI / GenerativeOpenAI).   *)
(*                                                                         *)
(* A document is a sequence of tokens, one token per offset.  A parsed     *)
(* file is the tree the TypeScript parser hands to the generator:          *)
(* top-level statements, and the members of class-like statements.         *)
(* (line, character) positions are modelled by their offsets:              *)
(* getLineAndCharacterOfPosition / getPositionOfLineAndCharacter are       *)
(* inverse bijections between the two.                                     *)
(***************************************************************************)
EXTENDS Integers, Sequences, FiniteSets, TLC

(***************************************************************************)
(* Bounds of the model.                                                    *)
(***************************************************************************)
\* Declarations (statements plus members) of the document of a Position or
\* File scope run.
MaxNodes == 3
\* Files that findFiles enumerates in a Folder/Workspace scope run.
MaxFiles == 2
\* Declarations of all the files of a Folder/Workspace scope run together.
WsNodes == 2
\* Invocations of generate-for-file on the same document.
MaxRuns == 2
\* Parameters of the declaration handed to describeParameters.
MaxParams == 2
\* Calls of updateFile on one file name while it stays listed.
MaxUpdates == 11

VARIABLES
  uris,                \* findFiles result / the active document: parsed files
  docs,                \* current text of every file (token sequences)
  scope,               \* "none", "position", "file", "workspace" (Folder scope
                       \* too: a folder only narrows the glob of findFiles
                       \* and changes the wording of the messages)
  sink,                \* TextFile.instance: "editor" or "batch" (WorkspaceEdit)
  caret,               \* textEditor.selection.start (Position scope)
  pc,                  \* the await the invocation is suspended at
  files,               \* LanguageServiceHost.files: text and version per file
  hostLog,             \* history: per file name, the updateFile calls since
                       \* the name was added and the text of the last one
  observed,            \* history: one earlier observation of a listed file
  cancelled,           \* token.isCancellationRequested
  fileIdx,             \* index in uris of the file being processed
  pos,                 \* position of writeFileJsdoc's loops in the visit order
  node,                \* node handed to writeJsdoc
  fileLevel,           \* writeJsdoc's fileLevel
  jsdocNumber,         \* writeFileJsdoc's jsdocNumber
  jsdocExpectedNumber, \* generateJsdocWorkspace's jsdocExpectedNumber
  workspaceEdit,       \* the WorkspaceEdit: accumulated (file, offset, text)
  messages,            \* window.show*Message calls of the invocation
  resolved,            \* the invocation's promise has resolved
  run,                 \* number of the invocation
  events,              \* history: builds started and sink calls issued
  filesDone,           \* history: files whose File-scope processing finished
  cancelAt,            \* history: filesDone when cancellation was signalled
  sinkFailed,          \* history: an insert or the apply returned false
  threw,               \* history: an awaited call rejected
  prevCount,           \* history: headers of the previous File run, if it
                       \* wrote all of them (-1 otherwise)
  config,              \* the extension's settings read by getConfig
  generator,           \* GenerativeAPI.generator
  call,                \* the GenerativeAPI operation called last
  genPc,               \* "idle", "request" (awaiting the completion), "settled"
  outcome,             \* the promise the operation returned
  requested,           \* history: the call issued a completion request
  response,            \* history: what the completion request came to
  keyCleared,          \* history: the key was cleared after an operation
                       \* had made a generator with it
  settings,            \* the settings JsdocBuilder reads by getConfig
  declaration,         \* the node handed to JsdocBuilder
  snippet              \* JsdocBuilder.jsdoc: the lines appended so far

vars == <<uris, docs, scope, sink, caret, pc, cancelled, fileIdx, pos, node,
          fileLevel, jsdocNumber, jsdocExpectedNumber, workspaceEdit,
          messages, resolved, run, events, filesDone, cancelAt, sinkFailed,
          threw, prevCount, config, generator, call, genPc, outcome,
          requested, response, keyCleared, settings, declaration, snippet,
          files, hostLog, observed>>

hostVars == <<hostLog, observed>>

builderVars == <<settings, declaration, snippet>>

genVars ==
  <<config, generator, call, genPc, outcome, requested, response, keyCleared>>

orchestratorVars ==
  <<uris, docs, scope, sink, caret, pc, cancelled, fileIdx, pos, node,
    fileLevel, jsdocNumber, jsdocExpectedNumber, workspaceEdit, messages,
    resolved, run, events, filesDone, cancelAt, sinkFailed, threw, prevCount,
    files>>

(***************************************************************************)
(* Syntax trees.                                                           *)
(***************************************************************************)
\* A node is <<s, m>>: statement s of the file, member m of it (0: the
\* statement itself).
sourceFileNode == <<0, 0>>
\* The mock node of file-level JSDocs.
fileNode == <<0, 1>>
undefinedNode == <<0, 2>>

\* A member of a class-like statement: of a supported kind (a method, a get
\* or a set accessor), or of a kind that is not in supportedNodes (an index
\* signature).  The accessors of one class have the same name.
Member(k, d) == [kind |-> k, doc |-> d]
Stmt(k, d, ms) == [kind |-> k, doc |-> d, members |-> ms]

RECURSIVE SeqsUpTo(_, _)
SeqsUpTo(S, n) ==
  IF n = 0 THEN {<<>>}
  ELSE LET shorter == SeqsUpTo(S, n - 1)
       IN shorter \cup {Append(q, x) : q \in {r \in shorter : Len(r) = n - 1}, x \in S}

\* The statements with at most n nodes.
StmtsUpTo(n) ==
  IF n = 0 THEN {}
  ELSE {Stmt("func", d, <<>>) : d \in BOOLEAN}
       \cup {Stmt("other", FALSE, <<>>)}
       \cup {Stmt("class", d, ms) : d \in BOOLEAN,
                                    ms \in SeqsUpTo({Member("method", TRUE),
                                                     Member("method", FALSE),
                                                     Member("index", FALSE)}, n - 1)}
       \cup (IF n >= 3
             THEN {Stmt("class", FALSE, <<Member("get", g), Member("set", s)>>) :
                     g \in BOOLEAN, s \in BOOLEAN}
             ELSE {})

NodesOfStmt(s) == 1 + Len(s.members)

\* The statement lists with at most n nodes in all.
RECURSIVE StmtListsUpTo(_)
StmtListsUpTo(n) ==
  {<<>>} \cup UNION {{<<s>> \o rest : rest \in StmtListsUpTo(n - NodesOfStmt(s))}
                     : s \in StmtsUpTo(n)}

SourceFile(stmts) == [lang |-> TRUE, src |-> TRUE, stmts |-> stmts]
\* A document whose languageId is not supported.
UnsupportedFile == [lang |-> FALSE, src |-> FALSE, stmts |-> <<>>]
\* A document the program has no source file for.
NoSourceFile == [lang |-> TRUE, src |-> FALSE, stmts |-> <<>>]

NodesOfFile(f) ==
  LET RECURSIVE sum(_)
      sum(i) == IF i = 0 THEN 0 ELSE NodesOfStmt(f.stmts[i]) + sum(i - 1)
  IN sum(Len(f.stmts))

FilesUpTo(n) ==
  {SourceFile(st) : st \in StmtListsUpTo(n)} \cup {UnsupportedFile, NoSourceFile}

\* The file lists of at most k files with at most n nodes in all.
RECURSIVE WorkspacesUpTo(_, _)
WorkspacesUpTo(k, n) ==
  IF k = 0 THEN {<<>>}
  ELSE {<<>>} \cup UNION {{<<f>> \o rest : rest \in WorkspacesUpTo(k - 1, n - NodesOfFile(f))}
                          : f \in FilesUpTo(n)}

(***************************************************************************)
(* Text and offsets.                                                       *)
(***************************************************************************)
Tok(t, n) == [t |-> t, n |-> n]

\* Tokens (lines) of the header built for a node of the given kind: the
\* header of a class-like declaration is longer than the others.
HeaderLen(kind) == IF kind = "class" THEN 2 ELSE 1

KindOf(f, n) ==
  IF n[1] = 0 THEN "file"
  ELSE IF n[2] = 0 THEN f.stmts[n[1]].kind ELSE "member"

Header(f, n) == [i \in 1..HeaderLen(KindOf(f, n)) |-> Tok("hdr", n)]

\* The text of a parsed file: every node's existing header directly before
\* its declaration.
MemberText(f, s, m) ==
  (IF f.stmts[s].members[m].doc THEN Header(f, <<s, m>>) ELSE <<>>)
    \o <<Tok("decl", <<s, m>>)>>

RECURSIVE MembersText(_, _, _)
MembersText(f, s, m) ==
  IF m = 0 THEN <<>> ELSE MembersText(f, s, m - 1) \o MemberText(f, s, m)

StmtText(f, s) ==
  (IF f.stmts[s].doc THEN Header(f, <<s, 0>>) ELSE <<>>)
    \o <<Tok("decl", <<s, 0>>)>>
    \o (IF f.stmts[s].kind = "class"
        THEN MembersText(f, s, Len(f.stmts[s].members)) \o <<Tok("close", <<s, 0>>)>>
        ELSE <<>>)

RECURSIVE StmtsText(_, _)
StmtsText(f, s) == IF s = 0 THEN <<>> ELSE StmtsText(f, s - 1) \o StmtText(f, s)

Layout(f) == StmtsText(f, Len(f.stmts))

IndexOf(text, tok) == CHOOSE i \in 1..Len(text) : text[i] = tok

\* node.getStart(): the offset of the declaration, after its JSDoc.
getStart(f, n) ==
  IF n = fileNode THEN 0 ELSE IndexOf(Layout(f), Tok("decl", n)) - 1

hasJsdocFalse(f, n) == FALSE

\* TsFile.hasJsdoc.
hasJsdoc(f, n) ==
  IF n[1] = 0 THEN FALSE
  ELSE IF n[2] = 0 THEN f.stmts[n[1]].doc ELSE f.stmts[n[1]].members[n[2]].doc

\* node.getStart(sourceFile, true): the offset of the node's JSDoc, if any.
getStartWithJsDoc(f, n) ==
  IF n = fileNode THEN 1
  ELSE getStart(f, n) - (IF hasJsdoc(f, n) THEN HeaderLen(KindOf(f, n)) ELSE 0)

\* node.getEnd().
getEnd(f, n) ==
  IF n = sourceFileNode THEN Len(Layout(f))
  ELSE IF n[2] = 0 /\ f.stmts[n[1]].kind = "class"
       THEN IndexOf(Layout(f), Tok("close", n))
       ELSE getStart(f, n) + 1

\* node.getFullStart(): the end of the node before it.
getFullStart(f, n) ==
  IF n = sourceFileNode THEN 0
  ELSE IF n[2] = 0
       THEN (IF n[1] = 1 THEN 0 ELSE getEnd(f, <<n[1] - 1, 0>>))
       ELSE (IF n[2] = 1 THEN getStart(f, <<n[1], 0>>) + 1
             ELSE getEnd(f, <<n[1], n[2] - 1>>))


(***************************************************************************)
(* TsFile: supported nodes and the node at the caret.                      *)
(***************************************************************************)
\* TsFile.isNodeSupported: the statement kinds and the member kinds of
\* supportedNodes.
isNodeSupported(f, n) ==
  /\ n[1] # 0
  /\ IF n[2] = 0 THEN f.stmts[n[1]].kind \in {"class", "func"}
                 ELSE f.stmts[n[1]].members[n[2]].kind \in {"method", "get", "set"}

isClassLike(f, n) == n[1] # 0 /\ n[2] = 0 /\ f.stmts[n[1]].kind = "class"

\* The nodes of the tree in the order forEachChild visits them.
RECURSIVE PreorderFrom(_, _)
PreorderFrom(f, s) ==
  IF s > Len(f.stmts) THEN <<>>
  ELSE <<<<s, 0>>>> \o [m \in 1..Len(f.stmts[s].members) |-> <<s, m>>]
         \o PreorderFrom(f, s + 1)

Preorder(f) == <<sourceFileNode>> \o PreorderFrom(f, 1)

\* TsFile.findNode: every node that holds the position replaces the one
\* found before it, so the last such node in visiting order is returned.
findNode(f, position) ==
  LET order == Preorder(f)
      holds(i) == /\ getFullStart(f, order[i]) <= position
                  /\ getEnd(f, order[i]) >= position
      last == CHOOSE i \in 1..Len(order) :
                /\ holds(i)
                /\ \A j \in (i + 1)..Len(order) : ~holds(j)
  IN order[last]

parentOf(n) ==
  IF n = sourceFileNode THEN undefinedNode
  ELSE IF n[2] = 0 THEN sourceFileNode ELSE <<n[1], 0>>

\* TsFile.retrieveSupportedNode.
RECURSIVE retrieveSupportedNode(_, _)
retrieveSupportedNode(f, n) ==
  IF n = undefinedNode THEN undefinedNode
  ELSE IF isNodeSupported(f, n) THEN n
  ELSE retrieveSupportedNode(f, parentOf(n))

\* TsFile.supportedNode.
supportedNode(f, position) ==
  IF f.src THEN retrieveSupportedNode(f, findNode(f, position)) ELSE undefinedNode

\* !document.getText(new Range(0, 0, caret.line, caret.character)).trim()
onlyWhitespaceBefore(text, position) ==
  \A i \in 1..position : text[i].t = "ws"

(***************************************************************************)
(* JsdocGenerator: traversal order, locations, text edits.                 *)
(***************************************************************************)
\* sourceFile.statements.filter(statement => tsFile.isNodeSupported(statement))
statements(f) ==
  SelectSeq([s \in 1..Len(f.stmts) |-> <<s, 0>>], LAMBDA n : isNodeSupported(f, n))

\* One iteration of writeFileJsdoc's outer loop: the members of a class-like
\* statement from the last to the first, then the statement.
StatementVisit(f, n) ==
  (IF isClassLike(f, n)
   THEN LET len == Len(f.stmts[n[1]].members)
        IN [i \in 1..len |-> <<n[1], len + 1 - i>>]
   ELSE <<>>) \o <<n>>

RECURSIVE VisitFrom(_, _)
VisitFrom(f, c) ==
  IF c = 0 THEN <<>> ELSE StatementVisit(f, statements(f)[c]) \o VisitFrom(f, c - 1)

RECURSIVE VisitForward(_, _)
VisitForward(f, c) ==
  IF c = 0 THEN <<>> ELSE VisitForward(f, c - 1) \o StatementVisit(f, statements(f)[c])

VisitOrderTopDown(f) == VisitForward(f, Len(statements(f)))

\* The nodes writeFileJsdoc hands to writeJsdocConditionally, in order:
\* the statements from the last to the first.
VisitOrder(f) == VisitFrom(f, Len(statements(f)))

\* The first position from p on whose node writeJsdocConditionally writes.
RECURSIVE NextToWrite(_, _)
NextToWrite(f, p) ==
  IF p > Len(VisitOrder(f)) THEN p
  ELSE IF ~hasJsdoc(f, VisitOrder(f)[p]) THEN p
  ELSE NextToWrite(f, p + 1)

\* JsdocGenerator.getJsdocLocation.
getJsdocLocation(f, n) == getStart(f, n)

fileLevelNever(f, n, file) == FALSE

\* writeJsdoc's fileLevel.
isFileLevel(f, n, file) == file /\ getStart(f, n) # getStartWithJsDoc(f, n)

insertLocationAtNode(f, n, fl) == getJsdocLocation(f, n)

\* Where writeJsdoc inserts.
insertLocation(f, n, fl) == IF fl THEN 0 ELSE getJsdocLocation(f, n)

\* getAccessorDeclarationJsdoc's pairedAccessor: the first member of the
\* parent of the other accessor kind (0: none).
pairedAccessor(f, n) ==
  LET members == f.stmts[n[1]].members
      otherAccessorKind == IF members[n[2]].kind = "get" THEN "set" ELSE "get"
      found == {m \in 1..Len(members) : members[m].kind = otherAccessorKind}
  IN IF found = {} THEN 0 ELSE CHOOSE m \in found : \A k \in found : m <= k

\* buildJsdoc asking the document as it is now whether the paired accessor
\* has a JSDoc.
builtJsdocReparsed(f, n, fl) ==
  IF fl THEN Header(f, fileNode)
  ELSE IF n[2] # 0 /\ f.stmts[n[1]].members[n[2]].kind \in {"get", "set"}
       THEN LET p == pairedAccessor(f, n)
                i == IndexOf(docs[fileIdx], Tok("decl", <<n[1], p>>))
            IN IF p # 0 /\ i > 1 /\ docs[fileIdx][i - 1].t \in {"hdr", "reuse"}
               THEN <<Tok("reuse", n)>>
               ELSE Header(f, n)
       ELSE Header(f, n)

\* What buildJsdoc returns: the header of the declaration, which for an
\* accessor whose paired accessor has a JSDoc in the parsed file is the one
\* that repeats the paired accessor's description.
builtJsdoc(f, n, fl) ==
  IF fl THEN Header(f, fileNode)
  ELSE IF n[2] # 0 /\ f.stmts[n[1]].members[n[2]].kind \in {"get", "set"}
       THEN LET p == pairedAccessor(f, n)
            IN IF p # 0 /\ hasJsdoc(f, <<n[1], p>>)
               THEN <<Tok("reuse", n)>>
               ELSE Header(f, n)
       ELSE Header(f, n)

\* The text with `jsdoc` inserted at `offset`.
InsertAt(text, offset, jsdoc) ==
  SubSeq(text, 1, offset) \o jsdoc \o SubSeq(text, offset + 1, Len(text))

\* workspace.applyEdit: every insertion at its offset in the text as it was,
\* the later offsets first.
RECURSIVE ApplyEdits(_, _, _)
ApplyEdits(text, edits, left) ==
  IF left = {} THEN text
  ELSE LET i == CHOOSE i \in left :
                  \A j \in left : \/ edits[j].offset < edits[i].offset
                                  \/ (edits[j].offset = edits[i].offset /\ j <= i)
       IN ApplyEdits(InsertAt(text, edits[i].offset, edits[i].text), edits, left \ {i})

EditsOf(edits, u) == {i \in 1..Len(edits) : edits[i].uri = u}

\* The headers File scope generates for a file when nothing fails.
FileCount(f) ==
  IF f.lang /\ f.src
  THEN Cardinality({n \in {<<s, 0>> : s \in 1..Len(f.stmts)} :
                      isNodeSupported(f, n) /\ ~hasJsdoc(f, n)})
       + Cardinality({n \in UNION {{<<s, m>> : m \in 1..Len(f.stmts[s].members)}
                                   : s \in 1..Len(f.stmts)} :
                      isNodeSupported(f, <<n[1], 0>>) /\ ~hasJsdoc(f, n)})
  ELSE 0

RECURSIVE SumCounts(_, _)
SumCounts(fs, n) == IF n = 0 THEN 0 ELSE FileCount(fs[n]) + SumCounts(fs, n - 1)

\* The parse of `text`: the tree `f` with a JSDoc on exactly the nodes whose
\* declaration a header directly precedes.
Reparse(f, text) ==
  LET documented(n) ==
        LET i == IndexOf(text, Tok("decl", n))
        IN i > 1 /\ text[i - 1].t \in {"hdr", "reuse"}
  IN [f EXCEPT !.stmts =
        [s \in 1..Len(f.stmts) |->
           [f.stmts[s] EXCEPT
              !.doc = documented(<<s, 0>>),
              !.members = [m \in 1..Len(f.stmts[s].members) |->
                             [f.stmts[s].members[m] EXCEPT
                                !.doc = documented(<<s, m>>)]]]]]


(***************************************************************************)
(* The state of one invocation, and the steps between two awaits.          *)
(***************************************************************************)
Msg(kind, text, count) == [kind |-> kind, text |-> text, count |-> count]

\* A build started or a sink call issued; canc: whether cancellation had
\* been signalled when it was.
Event(op, f, n, fl, offset) ==
  [op |-> op, f |-> f, n |-> n, fl |-> fl, offset |-> offset, canc |-> cancelled]

isCancellationRequestedStale == FALSE

\* token.isCancellationRequested.
isCancellationRequested == cancelled

Ctl ==
  [pc |-> pc, fileIdx |-> fileIdx, pos |-> pos, node |-> node,
   fileLevel |-> fileLevel, jsdocNumber |-> jsdocNumber,
   jsdocExpectedNumber |-> jsdocExpectedNumber, workspaceEdit |-> workspaceEdit,
   messages |-> messages, resolved |-> resolved, events |-> events,
   filesDone |-> filesDone]

Set(r) ==
  /\ pc' = r.pc
  /\ fileIdx' = r.fileIdx
  /\ pos' = r.pos
  /\ node' = r.node
  /\ fileLevel' = r.fileLevel
  /\ jsdocNumber' = r.jsdocNumber
  /\ jsdocExpectedNumber' = r.jsdocExpectedNumber
  /\ workspaceEdit' = r.workspaceEdit
  /\ messages' = r.messages
  /\ resolved' = r.resolved
  /\ events' = r.events
  /\ filesDone' = r.filesDone

\* The invocation returns after showing `msgs`.
EndWith(r, msgs) ==
  [r EXCEPT !.pc = "done", !.resolved = TRUE, !.messages = r.messages \o msgs]

Generated(count) == Msg("info", "generated", count)
NoJsdoc == Msg("warning", "No JSDoc was generated", 0)
NoFile == Msg("warning", "No supported file", 0)
Unable == Msg("error", "Unable to generate JSDoc", 0)
UnableAtPosition == Msg("error", "Unable to generate JSDoc at position", 0)
UnableFileLevel == Msg("error", "Unable to generate file-level JSDoc", 0)
NotSupported == Msg("error", "language is not supported", 0)
Canceled == Msg("warning", "JSDoc generation canceled", 0)

nextUriApplyPerFile(r) ==
  IF r.fileIdx = 0 /\ Len(uris) > 0
  THEN [r EXCEPT !.pc = "openDoc", !.fileIdx = 1]
  ELSE [r EXCEPT !.pc = "apply",
                 !.events = Append(r.events, Event("apply", 0, fileNode, FALSE, 0))]

\* generateJsdocWorkspace, lines 90-119: the next uri of the loop, or the
\* apply after the last one.
nextUri(r) ==
  IF r.fileIdx < Len(uris)
  THEN [r EXCEPT !.pc = "openDoc", !.fileIdx = r.fileIdx + 1]
  ELSE [r EXCEPT !.pc = "apply",
                 !.events = Append(r.events, Event("apply", 0, fileNode, FALSE, 0))]

\* What follows writeFileJsdoc when it returns after its last statement.
afterWriteFileJsdoc(r) ==
  LET done == [r EXCEPT !.filesDone = r.filesDone + 1]
  IN IF scope = "file"
     THEN IF sink = "batch" /\ r.jsdocNumber > 0
          THEN [done EXCEPT !.pc = "apply",
                            !.events = Append(r.events, Event("apply", 0, fileNode, FALSE, 0))]
          ELSE EndWith(done, <<IF r.jsdocNumber > 0 THEN Generated(r.jsdocNumber) ELSE NoJsdoc>>)
     ELSE nextUri([done EXCEPT
                     !.jsdocExpectedNumber = r.jsdocExpectedNumber + r.jsdocNumber])

\* writeFileJsdoc's loops from position p of the visit order, up to the
\* await of the next buildJsdoc.
writeFileJsdocFrom(r, p) ==
  LET f == uris[r.fileIdx]
      j == NextToWrite(f, p)
  IN IF j <= Len(VisitOrder(f))
     THEN LET n == VisitOrder(f)[j]
          IN [r EXCEPT !.pc = "build", !.pos = j, !.node = n,
                       !.fileLevel = isFileLevel(f, n, FALSE),
                       !.events = Append(r.events,
                                         Event("build", r.fileIdx, n, FALSE,
                                               getJsdocLocation(f, n)))]
     ELSE afterWriteFileJsdoc([r EXCEPT !.pos = j])

\* The returns that follow a cancellation check that finds the token
\* cancelled inside writeJsdoc or writeFileJsdoc.
cancelReturn(r) ==
  IF scope = "workspace"
  THEN EndWith([r EXCEPT !.jsdocExpectedNumber = r.jsdocExpectedNumber + r.jsdocNumber],
               <<>>)
  ELSE EndWith(r, <<>>)

afterFindFiles(r, ok) ==
  IF ~ok THEN EndWith(r, <<Unable>>)
  ELSE IF isCancellationRequested THEN EndWith(r, <<>>)
  ELSE IF Len(uris) > 0 THEN nextUri(r)
  ELSE EndWith(r, <<NoFile>>)

\* What follows the await of textFile.document.  generateJsdocFile awaits it
\* outside any try: when it rejects, the invocation's promise rejects.
afterOpenDoc(r, ok) ==
  LET f == uris[r.fileIdx]
      enter == [r EXCEPT !.jsdocNumber = 0]
  IN IF scope = "file"
     THEN IF ~ok THEN [r EXCEPT !.pc = "done"]
          ELSE IF ~f.lang THEN EndWith(r, <<NotSupported>>)
          ELSE IF ~f.src THEN EndWith(r, <<Unable>>)
          ELSE IF isCancellationRequested THEN EndWith(r, <<>>)
          ELSE writeFileJsdocFrom(enter, 1)
     ELSE IF ~ok THEN EndWith(r, <<Unable>>)
          ELSE IF isCancellationRequested THEN EndWith(r, <<>>)
          ELSE IF f.lang /\ f.src THEN writeFileJsdocFrom(enter, 1)
          ELSE nextUri([r EXCEPT !.filesDone = r.filesDone + 1])

\* The message of the catch around writeJsdoc.
writeFailure(r) ==
  IF scope = "position"
  THEN (IF r.node = fileNode THEN UnableFileLevel ELSE UnableAtPosition)
  ELSE Unable

\* JsdocGenerator.insertJsdoc from writeJsdoc: TextFile.insert either calls
\* insertSnippet and awaits it, or adds the insertion to the WorkspaceEdit
\* and resolves true, after which writeFileJsdoc counts it and goes on.
insertJsdoc(r) ==
  LET f == uris[r.fileIdx]
      offset == insertLocation(f, r.node, r.fileLevel)
      jsdoc == builtJsdoc(f, r.node, r.fileLevel)
  IN IF sink = "editor"
     THEN [r EXCEPT !.pc = "insert",
                    !.events = Append(r.events,
                                      Event("insert", r.fileIdx, r.node, r.fileLevel, offset))]
     ELSE writeFileJsdocFrom(
            [r EXCEPT !.workspaceEdit =
                         Append(r.workspaceEdit,
                                [uri |-> r.fileIdx, offset |-> offset, text |-> jsdoc]),
                      !.events = Append(r.events,
                                        Event("accumulate", r.fileIdx, r.node,
                                              r.fileLevel, offset)),
                      !.jsdocNumber = r.jsdocNumber + 1],
            r.pos + 1)

\* afterBuild going on with the next declaration when the build rejects.
afterBuildSkipFailed(r, ok) ==
  IF ~ok THEN writeFileJsdocFrom(r, r.pos + 1)
  ELSE IF isCancellationRequested THEN cancelReturn(r)
  ELSE insertJsdoc(r)

afterBuildUnchecked(r, ok) ==
  IF ~ok THEN EndWith(r, <<writeFailure(r)>>) ELSE insertJsdoc(r)

\* writeJsdoc after its await of buildJsdoc.
afterBuild(r, ok) ==
  IF ~ok THEN EndWith(r, <<writeFailure(r)>>)
  ELSE IF isCancellationRequested THEN cancelReturn(r)
  ELSE insertJsdoc(r)

\* What follows the await of TextEditor.insertSnippet.
afterInsert(r, res) ==
  IF res = "throw" THEN EndWith(r, <<writeFailure(r)>>)
  ELSE IF scope = "position" THEN EndWith(r, <<>>)
  ELSE LET counted == [r EXCEPT !.jsdocNumber =
                                   r.jsdocNumber + (IF res = "true" THEN 1 ELSE 0)]
       IN IF isCancellationRequested THEN cancelReturn(counted)
          ELSE writeFileJsdocFrom(counted, r.pos + 1)

afterApplyIgnoringResult(r, res) ==
  IF res = "throw" THEN EndWith(r, <<Unable>>)
  ELSE IF scope = "file" THEN EndWith(r, <<Generated(r.jsdocNumber)>>)
  ELSE EndWith(r, <<IF Len(r.workspaceEdit) > 0
                    THEN Generated(Len(r.workspaceEdit)) ELSE NoJsdoc>>)

\* What follows the await of workspace.applyEdit.
afterApply(r, res) ==
  IF res = "throw" THEN EndWith(r, <<Unable>>)
  ELSE IF scope = "file"
  THEN EndWith(r, <<IF res = "true" THEN Generated(r.jsdocNumber) ELSE NoJsdoc>>)
  ELSE IF res = "true" \/ r.jsdocExpectedNumber = 0
  THEN EndWith(r, <<IF Len(r.workspaceEdit) > 0
                    THEN Generated(Len(r.workspaceEdit)) ELSE NoJsdoc>>)
  ELSE EndWith(r, <<Unable>>)


(***************************************************************************)
(* GenerativeAPI and GenerativeOpenAI.                                     *)
(***************************************************************************)
\* JavaScript values the operations resolve with.
Undefined == [type |-> "undefined", s |-> "", a |-> <<>>]
Bool(b) == [type |-> "boolean", s |-> IF b THEN "true" ELSE "false", a |-> <<>>]
Str(s) == [type |-> "string", s |-> s, a |-> <<>>]
Arr(a) == [type |-> "array", s |-> "", a |-> a]

truthy(v) ==
  \/ v.type = "array"
  \/ (v.type = "boolean" /\ v.s = "true")
  \/ (v.type = "string" /\ v.s # "")

\* left && right.
AndThen(left, right) == IF truthy(left) THEN right ELSE left

Pending == [state |-> "pending", value |-> Undefined]
Fulfilled(v) == [state |-> "fulfilled", value |-> v]
Rejected == [state |-> "rejected", value |-> Undefined]

\* Parameter names, and the parameter lists handed to describeParameters.
Names == {"a", "b"}
ParameterLists == SeqsUpTo(Names, MaxParams)

\* The settings the operations read.
Configs ==
  [generativeApiKey : {"", "key"},
   generateDescriptionForParameters : BOOLEAN,
   generateDescriptionForTypeParameters : BOOLEAN,
   generateDescriptionForReturns : BOOLEAN]

\* getConfig's defaults.
DefaultConfig ==
  [generativeApiKey |-> "",
   generateDescriptionForParameters |-> FALSE,
   generateDescriptionForTypeParameters |-> FALSE,
   generateDescriptionForReturns |-> FALSE]

\* The function-call arguments of a completion: absent, or a string that is
\* empty, not JSON, the JSON null, or a JSON object with an optional
\* description and an optional record of descriptions ("none": no such key).
NoDescriptions == [name \in Names |-> "none"]

Arguments ==
  {[kind |-> k, description |-> "none", hasDescriptions |-> FALSE,
    descriptions |-> NoDescriptions] : k \in {"absent", "empty", "notJson", "null"}}
  \cup {[kind |-> "object", description |-> d, hasDescriptions |-> FALSE,
         descriptions |-> NoDescriptions] : d \in {"none", "text"}}
  \cup {[kind |-> "object", description |-> d, hasDescriptions |-> TRUE,
         descriptions |-> m] : d \in {"none", "text"}, m \in [Names -> {"none", "desc"}]}

\* What api.chat.completions.create comes to: it rejects, or resolves with
\* no choice, or with a first choice carrying the arguments.
Responses ==
  {[kind |-> k, arguments |-> CHOOSE x \in Arguments : x.kind = "absent"]
     : k \in {"rejected", "noChoices"}}
  \cup {[kind |-> "choice", arguments |-> x] : x \in Arguments}

NoResponse == [kind |-> "none", arguments |-> CHOOSE x \in Arguments : x.kind = "absent"]

NoCall == [op |-> "none", generics |-> FALSE, parameters |-> <<>>]

\* new GenerativeOpenAI(): the constructor initializes the api when the key
\* is set.
GenerativeOpenAI(cfg) == [defined |-> TRUE, api |-> cfg.generativeApiKey # ""]
NoGenerator == [defined |-> FALSE, api |-> FALSE]

\* tryInit keeping the generator it made before.
tryInitOnce(cfg) ==
  IF ~generator.defined /\ cfg.generativeApiKey # "" THEN GenerativeOpenAI(cfg)
  ELSE generator

\* GenerativeAPI.tryInit: the generator it leaves.
tryInit(cfg) ==
  IF cfg.generativeApiKey # "" THEN GenerativeOpenAI(cfg) ELSE NoGenerator

\* GenerativeAPI.sanitizeBoolean.
sanitizeBoolean(value) == IF value THEN Bool(TRUE) ELSE Undefined

\* GenerativeAPI.canGenerate, on the generator tryInit left.
canGenerate(cfg, flag) == sanitizeBoolean(tryInit(cfg).defined /\ flag)

\* JSON.parse(args): whether it throws; the value is the object itself.
JSONparseThrows(args) == args.kind = "notJson"

\* describeParameters leaving out the names the response has no description
\* for.
describeWithMissingDropped(c, resp) ==
  IF resp.kind = "choice" /\ resp.arguments.kind = "object"
     /\ resp.arguments.hasDescriptions
  THEN Fulfilled(Arr(SelectSeq([i \in 1..Len(c.parameters) |->
                                  resp.arguments.descriptions[c.parameters[i]]],
                               LAMBDA d : d # "none")))
  ELSE Fulfilled(Undefined)

\* The three operations of GenerativeOpenAI after the await of the request:
\* the promise they return.
describeWith(c, resp) ==
  LET args == resp.arguments
  IN IF resp.kind \in {"rejected", "noChoices"} THEN Rejected
     ELSE IF args.kind \in {"absent", "empty"} THEN Fulfilled(Undefined)
     ELSE IF JSONparseThrows(args) \/ args.kind = "null" THEN Fulfilled(Undefined)
     ELSE IF c.op = "describeParameters"
     THEN Fulfilled(IF args.hasDescriptions
                    THEN Arr([i \in 1..Len(c.parameters) |->
                                IF args.descriptions[c.parameters[i]] = "none" THEN ""
                                ELSE args.descriptions[c.parameters[i]]])
                    ELSE Arr(<<>>))
     ELSE Fulfilled(IF args.description = "none" THEN Undefined
                    ELSE Str(args.description))

\* No operation has been called.
IdleGenerative ==
  /\ generator = NoGenerator
  /\ call = NoCall
  /\ genPc = "idle"
  /\ outcome = Pending
  /\ requested = FALSE
  /\ response = NoResponse
  /\ keyCleared = FALSE

\* A GenerativeAPI operation up to its await: canGenerate(flag) && await
\* generator?.describe...(), the generator requesting a completion when its
\* api is set.
operation(c, flag) ==
  LET can == canGenerate(config, flag)
      request == truthy(can) /\ tryInit(config).api
  IN /\ genPc \in {"idle", "settled"}
     /\ generator' = tryInit(config)
     /\ call' = c
     /\ requested' = request
     /\ response' = NoResponse
     /\ genPc' = IF request THEN "request" ELSE "settled"
     /\ outcome' = IF request THEN Pending ELSE Fulfilled(AndThen(can, Undefined))
     /\ UNCHANGED <<config, keyCleared>>
     /\ UNCHANGED <<orchestratorVars, builderVars, hostVars>>

\* GenerativeAPI.describeSnippet.
describeSnippet ==
  operation([op |-> "describeSnippet", generics |-> FALSE, parameters |-> <<>>], TRUE)

\* GenerativeAPI.describeParameters.
describeParameters(generics, parameters) ==
  operation([op |-> "describeParameters", generics |-> generics,
             parameters |-> parameters],
            IF generics THEN config.generateDescriptionForTypeParameters
            ELSE config.generateDescriptionForParameters)

\* GenerativeAPI.describeReturn.
describeReturn ==
  operation([op |-> "describeReturn", generics |-> FALSE, parameters |-> <<>>],
            config.generateDescriptionForReturns)

\* The completion request settles and the operation's promise with it.
RequestSettles(resp) ==
  /\ genPc = "request"
  /\ response' = resp
  /\ outcome' = describeWith(call, resp)
  /\ genPc' = "settled"
  /\ UNCHANGED <<config, generator, call, requested, keyCleared>>
  /\ UNCHANGED <<orchestratorVars, builderVars, hostVars>>

\* The user changes a setting.
ConfigurationChange(cfg) ==
  /\ cfg # config
  /\ config' = cfg
  /\ keyCleared' = (keyCleared \/ (generator.api /\ cfg.generativeApiKey = ""))
  /\ UNCHANGED <<generator, call, genPc, outcome, requested, response>>
  /\ UNCHANGED <<orchestratorVars, builderVars, hostVars>>

(***************************************************************************)
(* JsdocBuilder.  A text (a type, a name, an initializer) is the sequence  *)
(* of its tokens; the blanks between tokens are left out.  A line of the   *)
(* JSDoc is what one buildJsdocLine or appendText call appends.            *)
(***************************************************************************)
\* A TypeNode as the parser gives it: its SyntaxKind and its getText().
Type(kind, text) == [kind |-> kind, text |-> text]

\* The types of the declarations built.
Types ==
  { Type("TypeReference", <<"A">>),
    Type("VoidKeyword", <<"void">>),
    Type("AnyKeyword", <<"any">>),
    Type("UnionType", <<"A", "|", "B">>),
    Type("IntersectionType", <<"A", "&", "B">>),
    Type("TypeReference", <<"T", "<", "A", "|", "B", ">">>),
    Type("ArrayType", <<"(", "A", "|", "B", ")", "[]">>),
    Type("TupleType", <<"[", "A", "|", "B", "]">>),
    Type("UnionType", <<"(", "(", ")", "=>", "A", ")", "|", "B">>),
    Type("FunctionType", <<"(", ")", "=>", "A">>) }

\* A ParameterDeclaration: its name (an identifier or a binding pattern),
\* its type, whether the type is written in the source, its tokens and its
\* initializer.
Parameter(name, type, rest, question, initializer) ==
  [kind |-> "Parameter", name |-> name, type |-> type, annotated |-> TRUE,
   dotDotDotToken |-> rest, questionToken |-> question,
   exclamationToken |-> FALSE, asteriskToken |-> FALSE,
   initializer |-> initializer]

\* function f({x, y = 1}) {}: one parameter whose name is a binding pattern
\* and whose type is inferred.
Destructured ==
  [Parameter(<<"{", "x", ",", "y", "=", "1", "}">>,
             Type("TypeLiteral",
                  <<"{", "x", ":", "any", ";", "y", "?", ":", "number", ";", "}">>),
             FALSE, FALSE, <<>>) EXCEPT !.annotated = FALSE]

\* The parameters of the declarations built.
Parameters ==
  { Parameter(<<"a">>, Type("UnionType", <<"A", "|", "B">>), FALSE, FALSE, <<>>),
    Parameter(<<"b">>, Type("UnionType", <<"A", "|", "B">>), TRUE, FALSE, <<>>),
    Parameter(<<"c">>, Type("UnionType", <<"A", "|", "B">>), FALSE, TRUE, <<>>),
    Parameter(<<"cb">>, Type("FunctionType", <<"(", ")", "=>", "A">>), FALSE, FALSE, <<>>),
    Destructured }

\* SyntaxKinds of JsdocBuilder.isFunctionKind that reach the builder.
FunctionKinds == {"MethodDeclaration", "FunctionDeclaration"}

\* typeChecker.typeToString(typeChecker.getTypeAtLocation(node)): the type
\* oracle.  For a function-like node it prints the signature,
\* "(parameters) => return type", each parameter as "name: type"; for any
\* other node the type.
typeToString(n) ==
  LET parameterToString(p) ==
        (IF p.dotDotDotToken THEN <<"...">> ELSE <<>>)
        \o (IF Len(p.name) = 1 THEN p.name ELSE <<"{", "x", ",", "y", "}">>)
        \o (IF p.questionToken \/ p.initializer # <<>> THEN <<"?">> ELSE <<>>)
        \o <<":">> \o p.type.text
      RECURSIVE parametersToString(_)
      parametersToString(ps) ==
        IF ps = <<>> THEN <<>>
        ELSE IF Len(ps) = 1 THEN parameterToString(ps[1])
        ELSE parameterToString(ps[1]) \o <<",">> \o parametersToString(Tail(ps))
  IN IF n.kind \in FunctionKinds
     THEN <<"(">> \o parametersToString(n.parameters) \o <<")", "=>">> \o n.type.text
     ELSE n.type.text

\* JsdocBuilder.inferType.
inferType(n) ==
  LET inferredType == typeToString(n)
  IN IF inferredType = <<>> \/ inferredType = <<"any">> THEN <<"*">>
     ELSE inferredType

\* getTypePrefix testing the rest token before the others.
getTypePrefixRestFirst(n) ==
  IF n.kind = "Parameter" /\ n.dotDotDotToken THEN <<"...">>
  ELSE IF n.questionToken /\ n.kind # "VariableDeclaration" THEN <<"?">>
  ELSE IF n.exclamationToken /\ n.kind # "Parameter" THEN <<"!">>
  ELSE IF /\ n.kind # "PropertyDeclaration"
          /\ n.kind # "Parameter"
          /\ n.kind # "VariableDeclaration"
          /\ n.asteriskToken
       THEN <<"*">>
  ELSE <<>>

\* JsdocBuilder.getTypePrefix.
getTypePrefix(n) ==
  IF n.questionToken /\ n.kind # "VariableDeclaration" THEN <<"?">>
  ELSE IF n.exclamationToken /\ n.kind # "Parameter" THEN <<"!">>
  ELSE IF n.kind = "Parameter" /\ n.dotDotDotToken THEN <<"...">>
  ELSE IF /\ n.kind # "PropertyDeclaration"
          /\ n.kind # "Parameter"
          /\ n.kind # "VariableDeclaration"
          /\ n.asteriskToken
       THEN <<"*">>
  ELSE <<>>

\* checkParenthesisUse looking at the setting only.
checkParenthesisUsePolicyOnly(type, prefix) ==
  /\ settings.includeParenthesisForMultipleTypes
  /\ \E k \in 2..Len(type) : type[k] \in {"&", "|"}

\* JsdocBuilder.checkParenthesisUse.  The regular expression
\* /^[^(<]+([^(<]|[(<].*[)>])*(&|\|).*$/ tells these characters apart: '('
\* and '<' open, ')' and '>' close ("=>" ends with '>').  A stretch of the
\* text matches ([^(<]|[(<].*[)>])* when every '(' or '<' in it is followed,
\* later in it, by a ')' or '>'.
checkParenthesisUse(type, prefix) ==
  LET Opens(tok) == tok \in {"(", "<"}
      Closes(tok) == tok \in {")", ">", "=>"}
      Bracketed(from, to) ==
        \A i \in from..to :
          Opens(type[i]) => \E j \in (i + 1)..to : Closes(type[j])
      test == /\ type # <<>>
              /\ ~Opens(type[1])
              /\ \E k \in 2..Len(type) :
                   /\ type[k] \in {"&", "|"}
                   /\ Bracketed(2, k - 1)
  IN test /\ (settings.includeParenthesisForMultipleTypes \/ prefix # <<>>)

\* JsdocBuilder.retrieveType.
retrieveType(n) ==
  IF settings.includeTypes
  THEN LET prefix == getTypePrefix(n)
           type == IF ~n.annotated THEN inferType(n)
                   ELSE IF n.type.text = <<"any">> THEN <<"*">>
                   ELSE n.type.text
       IN prefix \o (IF checkParenthesisUse(type, prefix)
                     THEN <<"(">> \o type \o <<")">> ELSE type)
  ELSE <<>>

\* A line of the JSDoc: " * @tag value extra", where value carries its
\* wrapper.
Line(tag, value, extra) ==
  [tag |-> tag, value |-> value, extra |-> extra, placeholder |-> FALSE]

\* Text appended as it is: the opening "/**", the description.
Text(text) == Line("", <<>>, <<text>>)

\* JsdocBuilder.buildJsdocLine.
buildJsdocLine(tag, tagValue, wrapper, extraValue) ==
  IF tag = "" THEN Line("", <<>>, <<>>)
  ELSE Line(tag,
            IF tagValue = <<>> THEN <<>>
            ELSE IF wrapper = "{}" THEN <<"{">> \o tagValue \o <<"}">>
            ELSE tagValue,
            extraValue)

\* JsdocBuilder.buildJsdocLines.
buildJsdocLines(tag, tagValues, wrapper, extraValues) ==
  [i \in 1..Len(tagValues) |->
     buildJsdocLine(tag, tagValues[i], wrapper,
                    IF i \in DOMAIN extraValues THEN extraValues[i] ELSE <<>>)]

\* JsdocBuilder.buildJsdocReturn.  functionType.substring(
\* functionType.split('=> ')[0].length + 3) is what follows the first "=> "
\* of the text, nothing when there is none.
buildJsdocReturn(n) ==
  LET AfterFirstArrow(text) ==
        IF \E i \in 1..Len(text) : text[i] = "=>"
        THEN LET first == CHOOSE i \in 1..Len(text) :
                            /\ text[i] = "=>"
                            /\ \A j \in 1..(i - 1) : text[j] # "=>"
             IN SubSeq(text, first + 1, Len(text))
        ELSE <<>>
      found == IF n.annotated THEN n.type.text
               ELSE AfterFirstArrow(inferType(n))
      returnType == IF found = <<"any">> THEN <<"*">> ELSE found
  IN IF returnType # <<"void">>
     THEN <<buildJsdocLine("returns",
                           IF ~settings.includeTypes THEN <<>>
                           ELSE IF checkParenthesisUse(returnType, <<>>)
                                THEN <<"(">> \o returnType \o <<")">>
                           ELSE returnType,
                           "{}", <<>>)>>
     ELSE <<>>

\* JsdocBuilder.buildDescription.
buildDescription(description) ==
  IF description # "" THEN <<Text(description)>>
  ELSE IF settings.descriptionPlaceholder # ""
       THEN <<[Text(settings.descriptionPlaceholder) EXCEPT !.placeholder = TRUE]>>
       ELSE <<Text("")>>

\* JsdocBuilder.buildDate (the value is the day the header is built).
buildDate ==
  IF settings.includeDate THEN <<buildJsdocLine("date", <<"today">>, "", <<>>)>>
  ELSE <<>>

\* JsdocBuilder.buildAuthor.
buildAuthor ==
  IF settings.author # ""
  THEN <<buildJsdocLine("author", <<settings.author>>, "", <<>>)>>
  ELSE <<>>

\* JsdocBuilder.buildJsdocHeader.
buildJsdocHeader ==
  <<Text("/**")>> \o buildDescription("") \o buildDate \o buildAuthor
  \o <<buildJsdocLine("", <<>>, "{}", <<>>)>>

\* JsdocBuilder.buildJsdocModifiers: one line per modifier, in source
\* order, export and async when their settings are on.
RECURSIVE buildJsdocModifiers(_)
buildJsdocModifiers(modifiers) ==
  IF modifiers = <<>> THEN <<>>
  ELSE (IF modifiers[1] = "export" /\ ~settings.includeExport THEN <<>>
        ELSE IF modifiers[1] = "async" /\ ~settings.includeAsync THEN <<>>
        ELSE <<buildJsdocLine(modifiers[1], <<>>, "{}", <<>>)>>)
       \o buildJsdocModifiers(Tail(modifiers))

\* JsdocBuilder.buildTypeParameters.
buildTypeParameters(typeParameters) ==
  buildJsdocLines("template", typeParameters, "", <<>>)

\* JsdocBuilder.buildJsdocHeritage with getMultipleTypes.
RECURSIVE buildJsdocHeritage(_)
buildJsdocHeritage(heritageClauses) ==
  IF heritageClauses = <<>> THEN <<>>
  ELSE buildJsdocLines(heritageClauses[1].token, heritageClauses[1].types, "{}", <<>>)
       \o buildJsdocHeritage(Tail(heritageClauses))

\* JsdocBuilder.buildJsdocParameters.
buildJsdocParameters(parameters) ==
  LET name(parameter) ==
        LET initializer == IF parameter.initializer # <<>>
                           THEN <<"=">> \o parameter.initializer ELSE <<>>
            isOptional == parameter.questionToken \/ initializer # <<>>
        IN IF isOptional THEN <<"[">> \o parameter.name \o initializer \o <<"]">>
           ELSE parameter.name
  IN buildJsdocLines("param",
                     [i \in 1..Len(parameters) |-> retrieveType(parameters[i])],
                     "{}",
                     [i \in 1..Len(parameters) |-> name(parameters[i])])

\* JsdocBuilder.buildCustomTags.
buildCustomTags ==
  [i \in 1..Len(settings.customTags) |->
     buildJsdocLine(settings.customTags[i].tag,
                    settings.customTags[i].placeholder, "", <<>>)]

\* JsdocBuilder.buildJsdocEnd: drops a blank last line and a blank line
\* after the opening when the JSDoc has more than two lines, then closes it.
buildJsdocEnd(lines) ==
  LET Blank == Line("", <<>>, <<>>)
      noLast == IF Len(lines) > 2 /\ lines[Len(lines)] = Blank
                THEN SubSeq(lines, 1, Len(lines) - 1) ELSE lines
      noFirst == IF Len(noLast) > 2 /\ noLast[2] = Blank
                 THEN <<noLast[1]>> \o SubSeq(noLast, 3, Len(noLast))
                 ELSE noLast
  IN noFirst \o <<Text("*/")>>

\* getMethodDeclarationJsdoc with the custom tags before the return line.
getMethodDeclarationJsdocCustomFirst(n) ==
  buildJsdocEnd(buildJsdocHeader
                \o buildJsdocModifiers(n.modifiers)
                \o buildTypeParameters(n.typeParameters)
                \o buildJsdocParameters(n.parameters)
                \o buildCustomTags
                \o buildJsdocReturn(n))

\* JsdocBuilder.getMethodDeclarationJsdoc.
getMethodDeclarationJsdoc(n) ==
  buildJsdocEnd(buildJsdocHeader
                \o buildJsdocModifiers(n.modifiers)
                \o buildTypeParameters(n.typeParameters)
                \o buildJsdocParameters(n.parameters)
                \o buildJsdocReturn(n)
                \o buildCustomTags)

\* JsdocBuilder.getConstructorJsdoc.
getConstructorJsdoc(n) ==
  buildJsdocEnd(<<Text("/**")>>
                \o (IF settings.descriptionForConstructors # "" /\ n.className # <<>>
                    THEN buildDescription(settings.descriptionForConstructors)
                    ELSE <<>>)
                \o buildDate \o buildAuthor
                \o <<buildJsdocLine("", <<>>, "{}", <<>>)>>
                \o <<buildJsdocLine("constructor", <<>>, "{}", <<>>)>>
                \o buildJsdocModifiers(n.modifiers)
                \o buildJsdocParameters(n.parameters)
                \o buildCustomTags)

\* JsdocBuilder.getClassLikeDeclarationJsdoc.
getClassLikeDeclarationJsdoc(n) ==
  LET tag == IF n.kind = "InterfaceDeclaration" THEN "interface" ELSE "class"
  IN buildJsdocEnd(buildJsdocHeader
                   \o buildJsdocModifiers(n.modifiers)
                   \o (IF n.name # <<>>
                       THEN <<buildJsdocLine(tag, IF settings.includeTypes THEN n.name
                                                  ELSE <<>>, "", <<>>),
                              buildJsdocLine("typedef", n.name, "{}", <<>>)>>
                       ELSE <<buildJsdocLine(tag, <<>>, "{}", <<>>)>>)
                   \o buildTypeParameters(n.typeParameters)
                   \o buildJsdocHeritage(n.heritageClauses)
                   \o buildCustomTags)

\* JsdocBuilder.getPropertyDeclarationJsdoc of a property that is assigned
\* neither a function nor a class.
getPropertyDeclarationJsdoc(n) ==
  buildJsdocEnd(buildJsdocHeader
                \o buildJsdocModifiers(n.modifiers)
                \o (IF settings.includeTypes
                    THEN <<buildJsdocLine("type", retrieveType(n), "{}", <<>>)>>
                    ELSE <<>>)
                \o buildCustomTags)

\* An accessor documented without looking at the accessor paired with it.
getAccessorDeclarationJsdocAlone(n) == getPropertyDeclarationJsdoc(n)

\* JsdocBuilder.getAccessorDeclarationJsdoc.  n.paired is the accessor of
\* the other kind with the same name among the members of the parent.
getAccessorDeclarationJsdoc(n) ==
  buildJsdocEnd((IF n.paired.present /\ n.paired.hasJsdoc
                 THEN <<Text("/**")>> \o buildDescription(n.paired.description)
                 ELSE buildJsdocHeader
                      \o buildJsdocModifiers(n.modifiers)
                      \o (IF n.kind = "GetAccessor" /\ ~n.paired.present
                          THEN <<buildJsdocLine("readonly", <<>>, "{}", <<>>)>>
                          ELSE <<>>)
                      \o (IF settings.includeTypes
                          THEN <<buildJsdocLine("type", retrieveType(n), "{}", <<>>)>>
                          ELSE <<>>))
                \o buildCustomTags)

\* JsdocBuilder.getEnumDeclarationJsdoc.
getEnumDeclarationJsdoc(n) ==
  buildJsdocEnd(buildJsdocHeader
                \o buildJsdocModifiers(n.modifiers)
                \o <<buildJsdocLine("enum", IF settings.includeTypes THEN <<"number">>
                                            ELSE <<>>, "{}", <<>>)>>
                \o buildCustomTags)

\* JsdocBuilder.getTypeAliasJsdoc.
getTypeAliasJsdoc(n) ==
  buildJsdocEnd(buildJsdocHeader
                \o buildJsdocModifiers(n.modifiers)
                \o <<buildJsdocLine("typedef", n.name, "{}", <<>>)>>
                \o buildTypeParameters(n.typeParameters)
                \o buildCustomTags)

\* The settings JsdocBuilder reads.
Settings ==
  [includeTypes : BOOLEAN,
   includeParenthesisForMultipleTypes : BOOLEAN,
   includeExport : BOOLEAN,
   includeAsync : BOOLEAN,
   includeDate : BOOLEAN,
   author : {"", "Crystal"},
   descriptionPlaceholder : {"", "Description placeholder"},
   descriptionForConstructors : {"Creates an instance of C."},
   customTags : {<<>>, <<[tag |-> "example", placeholder |-> <<"usage">>]>>}]

\* The values getConfig falls back to.
DefaultSettings ==
  [includeTypes |-> TRUE, includeParenthesisForMultipleTypes |-> TRUE,
   includeExport |-> TRUE, includeAsync |-> TRUE, includeDate |-> FALSE,
   author |-> "", descriptionPlaceholder |-> "",
   descriptionForConstructors |-> "", customTags |-> <<>>]

\* pairedAccessor when the parent has no accessor of the other kind with
\* the same name.  One that is present has a JSDoc or not, and its JSDoc a
\* description.
NoAccessor == [present |-> FALSE, hasJsdoc |-> FALSE, description |-> ""]

\* A declaration of the given kind with nothing optional in it.
Node(kind) ==
  [kind |-> kind, name |-> <<"f">>, className |-> <<"C">>, modifiers |-> <<>>,
   typeParameters |-> <<>>, heritageClauses |-> <<>>, parameters |-> <<>>,
   type |-> Type("VoidKeyword", <<"void">>), annotated |-> TRUE, questionToken |-> FALSE,
   exclamationToken |-> FALSE, asteriskToken |-> FALSE,
   dotDotDotToken |-> FALSE, paired |-> NoAccessor]

\* No node has been handed to the builder.
NoDeclaration == Node("none")

\* The nodes JsdocGenerator.buildJsdoc hands to the builder.
DeclarationNodes ==
  LET plain == Parameter(<<"a">>, Type("TypeReference", <<"A">>), FALSE, FALSE, <<>>)
      \* Methods: every parameter list with every return type, written or
      \* inferred.
      Methods ==
        { [Node("MethodDeclaration") EXCEPT !.parameters = ps, !.type = t,
                                            !.annotated = a] :
            ps \in SeqsUpTo(Parameters, MaxParams),
            t \in {Type("VoidKeyword", <<"void">>), Type("TypeReference", <<"A">>),
                   Type("AnyKeyword", <<"any">>), Type("UnionType", <<"A", "|", "B">>)},
            a \in BOOLEAN }
      \* Methods and functions with modifiers and type parameters.
      Modified ==
        { [Node(k) EXCEPT !.modifiers = ms, !.typeParameters = tps,
                          !.parameters = ps, !.type = Type("TypeReference", <<"A">>)] :
            k \in FunctionKinds,
            ms \in {<<"export", "async">>, <<"public", "static">>, <<"override">>,
                    <<"protected", "override">>},
            tps \in {<<>>, <<<<"T">>>>},
            ps \in SeqsUpTo({plain}, 1) }
      Constructors ==
        { [Node("Constructor") EXCEPT !.modifiers = ms, !.parameters = ps,
                                      !.className = c] :
            ms \in {<<>>, <<"private">>},
            ps \in SeqsUpTo({[plain EXCEPT !.initializer = <<"1">>]}, 1),
            c \in {<<>>, <<"C">>} }
      ClassLikes ==
        { [Node(k) EXCEPT !.name = nm, !.modifiers = ms, !.typeParameters = tps,
                          !.heritageClauses = hs] :
            k \in {"ClassDeclaration", "InterfaceDeclaration"},
            nm \in {<<>>, <<"C">>},
            ms \in {<<>>, <<"export", "abstract">>},
            tps \in {<<>>, <<<<"T">>>>},
            hs \in {<<>>, <<[token |-> "extends", types |-> <<<<"D">>>>]>>,
                    <<[token |-> "extends", types |-> <<<<"D", "<", "T", ">">>>>],
                      [token |-> "implements", types |-> <<<<"I">>, <<"J">>>>]>>} }
      \* Properties of every type, with and without a prefix.
      Properties ==
        { [Node("PropertyDeclaration") EXCEPT !.type = t, !.annotated = a,
                                              !.questionToken = (token = "?"),
                                              !.exclamationToken = (token = "!"),
                                              !.modifiers = ms] :
            t \in Types, a \in BOOLEAN, token \in {"", "?", "!"},
            ms \in {<<>>, <<"private", "readonly">>} }
      \* get and set accessors, alone or in a pair.
      Accessors ==
        { [Node(k) EXCEPT !.type = t, !.modifiers = ms, !.paired = p] :
            k \in {"GetAccessor", "SetAccessor"},
            t \in {Type("TypeReference", <<"A">>), Type("UnionType", <<"A", "|", "B">>)},
            ms \in {<<>>, <<"public", "static">>},
            p \in {NoAccessor,
                   [NoAccessor EXCEPT !.present = TRUE],
                   [NoAccessor EXCEPT !.present = TRUE, !.hasJsdoc = TRUE],
                   [present |-> TRUE, hasJsdoc |-> TRUE,
                    description |-> "The value."]} }
      EnumsAndAliases ==
        { [Node(k) EXCEPT !.modifiers = ms, !.typeParameters = tps] :
            k \in {"EnumDeclaration", "TypeAliasDeclaration"},
            ms \in {<<>>, <<"export">>},
            tps \in {<<>>, <<<<"T">>>>} }
      \* Typed nodes of type A with every combination of the four tokens
      \* the parser may have recorded on them: a property, the variable of
      \* a variable statement, a get accessor, the parameter of a method.
      Flagged ==
        LET with(n, q, e, d, a) ==
              [n EXCEPT !.type = Type("TypeReference", <<"A">>),
                        !.questionToken = q, !.exclamationToken = e,
                        !.dotDotDotToken = d, !.asteriskToken = a]
        IN { with(Node(k), q, e, d, a) :
               k \in {"PropertyDeclaration", "VariableDeclaration", "GetAccessor"},
               q \in BOOLEAN, e \in BOOLEAN, d \in BOOLEAN, a \in BOOLEAN }
           \cup { [Node("MethodDeclaration") EXCEPT
                     !.parameters = <<with(plain, q, e, d, a)>>] :
                     q \in BOOLEAN, e \in BOOLEAN, d \in BOOLEAN, a \in BOOLEAN }
  IN Methods \cup Modified \cup Constructors \cup ClassLikes \cup Properties
     \cup Accessors \cup EnumsAndAliases \cup Flagged

\* No builder has been constructed.
IdleBuilder ==
  /\ declaration = NoDeclaration
  /\ snippet = <<>>

\* A new JsdocBuilder builds the JSDoc of a node of one of the kinds.
build(kinds, lines) ==
  /\ declaration.kind \in kinds
  /\ snippet = <<>>
  /\ snippet' = lines
  /\ UNCHANGED <<settings, declaration>>
  /\ UNCHANGED <<orchestratorVars, genVars, hostVars>>

(***************************************************************************)
(* Initial states and actions.                                             *)
(***************************************************************************)
\* The document of a Position or File scope run, or the files of a
\* Folder/Workspace scope run.
Environments ==
  {<<f>> : f \in FilesUpTo(MaxNodes)} \cup WorkspacesUpTo(MaxFiles, WsNodes)

\* No invocation has started.
\* A file name LanguageServiceHost.files has no entry for.
NoEntry == [listed |-> FALSE, text |-> <<>>, version |-> 0]

IdleOrchestrator ==
  /\ docs = [i \in 1..Len(uris) |-> Layout(uris[i])]
  /\ scope = "none"
  /\ sink = "editor"
  /\ caret = 0
  /\ pc = "idle"
  /\ cancelled = FALSE
  /\ fileIdx = 0
  /\ pos = 0
  /\ node = undefinedNode
  /\ fileLevel = FALSE
  /\ jsdocNumber = 0
  /\ jsdocExpectedNumber = 0
  /\ workspaceEdit = <<>>
  /\ messages = <<>>
  /\ resolved = FALSE
  /\ run = 0
  /\ events = <<>>
  /\ filesDone = 0
  /\ cancelAt = 0
  /\ sinkFailed = FALSE
  /\ threw = FALSE
  /\ prevCount = -1
  /\ files = [i \in 1..Len(uris) |-> NoEntry]
  /\ hostLog = [i \in 1..Len(uris) |-> [calls |-> 0, text |-> <<>>]]
  /\ observed = [fileName |-> 0, text |-> <<>>, version |-> <<>>]

Init ==
  /\ uris \in Environments
  /\ IdleOrchestrator
  /\ config = DefaultConfig
  /\ IdleGenerative
  /\ settings = DefaultSettings
  /\ IdleBuilder

updateFileFromOne(fileName, fileText) ==
  [files EXCEPT ![fileName] =
     [listed |-> TRUE, text |-> fileText, version |-> @.version + 1]]

\* LanguageServiceHost.updateFile: the text of a listed file is replaced and
\* its version increased; a file not listed is added with version 0.
updateFile(fileName, fileText) ==
  [files EXCEPT ![fileName] =
     IF @.listed
     THEN [listed |-> TRUE, text |-> fileText, version |-> @.version + 1]
     ELSE [listed |-> TRUE, text |-> fileText, version |-> 0]]

\* The host after retrieveTsFile on document `u` whatever its language.
retrieveTsFileUnguarded(u, supported) == updateFile(u, docs[u])
\* The host after the isLanguageSupported guard around retrieveTsFile: the
\* file of document `u` is updated with the text of the document only when
\* the guard (and, on the way to it, the awaits and cancellation checks)
\* lets the invocation reach retrieveTsFile.
retrieveTsFile(u, supported) ==
  IF supported THEN updateFile(u, docs[u]) ELSE files

\* LanguageServiceHost.removeFile.
removeFile(fileName) == [files EXCEPT ![fileName] = NoEntry]

\* LanguageServiceHost.fileExists.
fileExists(fileName) == files[fileName].listed

\* LanguageServiceHost.readFile: the text, or undefined.
readFile(fileName) ==
  IF files[fileName].listed
  THEN [type |-> "string", text |-> files[fileName].text]
  ELSE [type |-> "undefined", text |-> <<>>]

\* Number.prototype.toString of a natural number: its decimal digits.
RECURSIVE toString(_)
toString(value) ==
  LET digit == <<"0", "1", "2", "3", "4", "5", "6", "7", "8", "9">>[(value % 10) + 1]
  IN IF value < 10 THEN <<digit>> ELSE Append(toString(value \div 10), digit)

\* LanguageServiceHost.getScriptVersion.
getScriptVersion(fileName) ==
  IF files[fileName].listed THEN toString(files[fileName].version) ELSE <<"NaN">>

\* The state a new invocation starts from.
Fresh ==
  [pc |-> "idle", fileIdx |-> 0, pos |-> 0, node |-> undefinedNode,
   fileLevel |-> FALSE, jsdocNumber |-> 0, jsdocExpectedNumber |-> 0,
   workspaceEdit |-> <<>>, messages |-> <<>>, resolved |-> FALSE,
   events |-> <<>>, filesDone |-> 0]

\* generate-for-folder (folder given) and generate-for-workspace, up to the
\* await of findFiles.
generateJsdocWorkspace(folder) ==
  /\ pc = "idle"
  /\ folder \in BOOLEAN
  /\ scope' = "workspace"
  /\ sink' = "batch"
  /\ run' = run + 1
  /\ Set([Fresh EXCEPT !.pc = "findFiles"])
  /\ UNCHANGED <<files, uris, docs, caret, cancelled, cancelAt, sinkFailed, threw, prevCount>>
  /\ UNCHANGED <<genVars, builderVars, hostVars>>

\* generate-for-file on the only document of the environment, through an
\* editor or through a WorkspaceEdit, up to the await of textFile.document.
generateJsdocFile(instance) ==
  /\ pc = "idle"
  /\ Len(uris) = 1
  /\ scope' = "file"
  /\ sink' = instance
  /\ run' = run + 1
  /\ Set([Fresh EXCEPT !.pc = "openDoc", !.fileIdx = 1])
  /\ UNCHANGED <<files, uris, docs, caret, cancelled, cancelAt, sinkFailed, threw, prevCount>>
  /\ UNCHANGED <<genVars, builderVars, hostVars>>

\* generate-at-position with the caret at `position` of the only document,
\* up to the await of buildJsdoc.
generateJsdoc(position) ==
  /\ pc = "idle"
  /\ Len(uris) = 1
  /\ position \in 0..Len(docs[1])
  /\ scope' = "position"
  /\ sink' = "editor"
  /\ caret' = position
  /\ run' = run + 1
  /\ LET f == uris[1]
         file == onlyWhitespaceBefore(docs[1], position)
         found == supportedNode(f, position)
         r == [Fresh EXCEPT !.fileIdx = 1]
         write(n, detached) ==
           LET fl == isFileLevel(f, n, file \/ n = fileNode)
           IN [r EXCEPT !.pc = "build", !.node = n, !.fileLevel = fl,
                        !.resolved = detached,
                        !.events = <<Event("build", 1, n, fl, getJsdocLocation(f, n))>>]
     IN /\ Set(IF ~f.lang THEN EndWith(r, <<NotSupported>>)
               ELSE IF found # undefinedNode THEN write(found, FALSE)
               ELSE IF file
               THEN (IF f.src THEN write(fileNode, TRUE)
                     ELSE EndWith(r, <<UnableFileLevel>>))
               ELSE EndWith(r, <<UnableAtPosition>>))
        /\ threw' = (f.lang /\ found = undefinedNode /\ file /\ ~f.src)
        /\ files' = retrieveTsFile(1, f.lang)
  /\ UNCHANGED <<uris, docs, cancelled, cancelAt, sinkFailed, prevCount>>
  /\ UNCHANGED <<genVars, builderVars, hostVars>>

\* The user cancels the progress notification: the token is cancelled and
\* the onCancellationRequested listener shows its warning.  Nothing can be
\* signalled while the invocation awaits an already resolved promise, nor
\* after its own promise has resolved.
Cancel ==
  /\ pc \in {"findFiles", "openDoc", "build", "insert", "apply"}
  /\ ~(pc = "openDoc" /\ sink = "editor")
  /\ ~resolved
  /\ ~cancelled
  /\ cancelled' = TRUE
  /\ cancelAt' = filesDone
  /\ messages' = Append(messages, Canceled)
  /\ UNCHANGED <<files, uris, docs, scope, sink, caret, pc, fileIdx, pos, node, fileLevel,
                 jsdocNumber, jsdocExpectedNumber, workspaceEdit, resolved, run,
                 events, filesDone, sinkFailed, threw, prevCount>>
  /\ UNCHANGED <<genVars, builderVars, hostVars>>

\* workspace.findFiles resolves, or rejects.
FindFilesReturn(ok) ==
  /\ pc = "findFiles"
  /\ Set(afterFindFiles(Ctl, ok))
  /\ threw' = (threw \/ ~ok)
  /\ UNCHANGED <<files, uris, docs, scope, sink, caret, cancelled, cancelAt, run,
                 sinkFailed, prevCount>>
  /\ UNCHANGED <<genVars, builderVars, hostVars>>

\* textFile.document resolves, or (workspace.openTextDocument) rejects.
OpenDocReturn(ok) ==
  /\ pc = "openDoc"
  /\ (sink = "editor" => ok)
  /\ Set(afterOpenDoc(Ctl, ok))
  /\ threw' = (threw \/ ~ok)
  /\ files' = retrieveTsFile(fileIdx,
                              ok /\ uris[fileIdx].lang
                                 /\ (scope = "file" \/ ~isCancellationRequested))
  /\ UNCHANGED <<uris, docs, scope, sink, caret, cancelled, cancelAt, run,
                 sinkFailed, prevCount>>
  /\ UNCHANGED <<genVars, builderVars, hostVars>>

\* buildJsdoc resolves with the header, or rejects.
BuildReturn(ok) ==
  /\ pc = "build"
  /\ Set(afterBuild(Ctl, ok))
  /\ threw' = (threw \/ ~ok)
  /\ UNCHANGED <<files, uris, docs, scope, sink, caret, cancelled, cancelAt, run,
                 sinkFailed, prevCount>>
  /\ UNCHANGED <<genVars, builderVars, hostVars>>

\* TextEditor.insertSnippet resolves true with the text inserted, resolves
\* false with the document as it was, or rejects.
InsertReturn(res) ==
  /\ pc = "insert"
  /\ LET f == uris[fileIdx]
     IN docs' = IF res = "true"
                THEN [docs EXCEPT ![fileIdx] =
                        InsertAt(docs[fileIdx], insertLocation(f, node, fileLevel),
                                 builtJsdoc(f, node, fileLevel))]
                ELSE docs
  /\ Set(afterInsert(Ctl, res))
  /\ sinkFailed' = (sinkFailed \/ res = "false")
  /\ threw' = (threw \/ res = "throw")
  /\ UNCHANGED <<files, uris, scope, sink, caret, cancelled, cancelAt, run, prevCount>>
  /\ UNCHANGED <<genVars, builderVars, hostVars>>

\* workspace.applyEdit resolves true with every edit applied, resolves false
\* with no file changed, or rejects.
ApplyReturn(res) ==
  /\ pc = "apply"
  /\ docs' = IF res = "true"
             THEN [u \in 1..Len(docs) |->
                     ApplyEdits(docs[u], workspaceEdit, EditsOf(workspaceEdit, u))]
             ELSE docs
  /\ Set(afterApply(Ctl, res))
  /\ sinkFailed' = (sinkFailed \/ res = "false")
  /\ threw' = (threw \/ res = "throw")
  /\ UNCHANGED <<files, uris, scope, sink, caret, cancelled, cancelAt, run, prevCount>>
  /\ UNCHANGED <<genVars, builderVars, hostVars>>

\* Whether the finished File scope run wrote every header it had to write.
FullySuccessful ==
  /\ pc = "done" /\ scope = "file"
  /\ uris[1].lang /\ uris[1].src
  /\ ~cancelled /\ ~threw /\ ~sinkFailed

\* generate-for-file once more on the document as the last run left it: the
\* document is parsed again.  To the new parse a JSDoc is a JSDoc, whichever
\* header the last run built for it.
Rerun ==
  /\ pc = "done"
  /\ scope = "file"
  /\ run < MaxRuns
  /\ uris' = [uris EXCEPT ![1] = Reparse(uris[1], docs[1])]
  /\ prevCount' = IF FullySuccessful THEN jsdocNumber ELSE -1
  /\ run' = run + 1
  /\ cancelled' = FALSE
  /\ cancelAt' = 0
  /\ sinkFailed' = FALSE
  /\ threw' = FALSE
  /\ Set([Fresh EXCEPT !.pc = "openDoc", !.fileIdx = 1])
  /\ docs' = [docs EXCEPT ![1] =
                [i \in 1..Len(@) |->
                   IF @[i].t = "reuse" THEN Tok("hdr", @[i].n) ELSE @[i]]]
  /\ UNCHANGED <<files, scope, sink, caret>>
  /\ UNCHANGED <<genVars, builderVars, hostVars>>

Next ==
  \/ \E folder \in BOOLEAN : generateJsdocWorkspace(folder)
  \/ \E instance \in {"editor", "batch"} : generateJsdocFile(instance)
  \/ \E position \in 0..(3 * MaxNodes) : generateJsdoc(position)
  \/ Cancel
  \/ \E ok \in BOOLEAN : FindFilesReturn(ok)
  \/ \E ok \in BOOLEAN : OpenDocReturn(ok)
  \/ \E ok \in BOOLEAN : BuildReturn(ok)
  \/ \E res \in {"true", "false", "throw"} : InsertReturn(res)
  \/ \E res \in {"true", "false", "throw"} : ApplyReturn(res)
  \/ Rerun

Spec == Init /\ [][Next]_vars

\* The generative operations on their own, under any settings.
InitGen ==
  /\ uris = <<>>
  /\ IdleOrchestrator
  /\ config \in Configs
  /\ IdleGenerative
  /\ settings = DefaultSettings
  /\ IdleBuilder

NextGen ==
  \/ describeSnippet
  \/ \E generics \in BOOLEAN, parameters \in ParameterLists :
       describeParameters(generics, parameters)
  \/ describeReturn
  \/ \E resp \in Responses : RequestSettles(resp)
  \/ \E cfg \in Configs : ConfigurationChange(cfg)

SpecGen == InitGen /\ [][NextGen]_vars

(***************************************************************************)
(* TextFile.insert: what each sink is handed.                              *)
(***************************************************************************)
\* SnippetString.value of the JSDoc built, token by token.  appendText puts
\* a backslash before '$', '}' and '\'; appendPlaceholder writes
\* ${n:placeholder} with the next tab stop n; buildJsdocLine removes the
\* first backslash of the value after a line whose tag value is wrapped in
\* braces.
snippetValue(lines) ==
  LET RECURSIVE escaped(_)
      escaped(tokens) ==
        IF tokens = <<>> THEN <<>>
        ELSE (IF Head(tokens) \in {"$", "}", "\\"}
              THEN <<"\\", Head(tokens)>> ELSE <<Head(tokens)>>)
             \o escaped(Tail(tokens))
      removeFirstBackslash(v) ==
        LET at == {i \in 1..Len(v) : v[i] = "\\"}
        IN IF at = {} THEN v
           ELSE LET backslashIndex == CHOOSE i \in at : \A j \in at : i <= j
                IN SubSeq(v, 1, backslashIndex - 1)
                     \o SubSeq(v, backslashIndex + 1, Len(v))
      RECURSIVE upTo(_)
      upTo(k) ==
        IF k = 0 THEN <<>>
        ELSE LET l == lines[k]
                 tabstop == Cardinality({i \in 1..k : lines[i].placeholder})
                 line == IF l.placeholder
                         THEN <<"${">> \o toString(tabstop) \o <<":">>
                                \o escaped(l.extra) \o <<"}">>
                         ELSE (IF l.tag = "" THEN <<>> ELSE <<"@", l.tag>>)
                                \o escaped(l.value) \o escaped(l.extra)
                 appended == upTo(k - 1) \o line \o <<"\n">>
             IN IF l.value # <<>> /\ l.value[1] = "{" /\ l.value[Len(l.value)] = "}"
                THEN removeFirstBackslash(appended)
                ELSE appended
  IN upTo(Len(lines))

\* TextEditor.insertSnippet: the text the editor leaves for the snippet, with
\* each placeholder as its text and each escaped character as itself (the
\* tab stops of a JSDoc take one digit).
insertSnippet(lines) ==
  LET v == snippetValue(lines)
      RECURSIVE expand(_, _)
      expand(i, inside) ==
        IF i > Len(v) THEN <<>>
        ELSE IF v[i] = "\\" /\ i < Len(v) /\ v[i + 1] \in {"$", "}", "\\"}
             THEN <<v[i + 1]>> \o expand(i + 2, inside)
        ELSE IF v[i] = "${" THEN expand(i + 3, TRUE)
        ELSE IF v[i] = "}" /\ inside THEN expand(i + 1, FALSE)
        ELSE <<v[i]>> \o expand(i + 1, inside)
  IN expand(1, FALSE)

\* TextFile.insert: the text the document gets from an editor, and the text
\* a WorkspaceEdit is given for it.
insert(instance, lines) ==
  IF instance = "editor" THEN insertSnippet(lines) ELSE snippetValue(lines)

\* The builder on its own: any declaration under any settings.
InitBuild ==
  /\ uris = <<>>
  /\ IdleOrchestrator
  /\ config = DefaultConfig
  /\ IdleGenerative
  /\ settings \in Settings
  /\ declaration \in DeclarationNodes
  /\ snippet = <<>>

\* JsdocGenerator.buildJsdoc: the method of JsdocBuilder for the node's kind.
NextBuild ==
  \/ build(FunctionKinds, getMethodDeclarationJsdoc(declaration))
  \/ build({"Constructor"}, getConstructorJsdoc(declaration))
  \/ build({"ClassDeclaration", "InterfaceDeclaration"},
           getClassLikeDeclarationJsdoc(declaration))
  \/ build({"PropertyDeclaration", "VariableDeclaration"},
           getPropertyDeclarationJsdoc(declaration))
  \/ build({"GetAccessor", "SetAccessor"}, getAccessorDeclarationJsdoc(declaration))
  \/ build({"EnumDeclaration"}, getEnumDeclarationJsdoc(declaration))
  \/ build({"TypeAliasDeclaration"}, getTypeAliasJsdoc(declaration))

SpecBuild == InitBuild /\ [][NextBuild]_vars

\* The LanguageServiceHost on its own, under any calls of its methods on the
\* names of two files.
HostTexts == {<<>>, <<Tok("decl", <<1, 0>>)>>, <<Tok("hdr", <<1, 0>>), Tok("decl", <<1, 0>>)>>}

InitHost ==
  /\ uris = <<SourceFile(<<>>), SourceFile(<<>>)>>
  /\ IdleOrchestrator
  /\ config = DefaultConfig
  /\ IdleGenerative
  /\ settings = DefaultSettings
  /\ IdleBuilder

NextHost ==
  \/ \E fileName \in 1..Len(uris), fileText \in HostTexts :
       /\ files[fileName].version < MaxUpdates
       /\ files' = updateFile(fileName, fileText)
       /\ hostLog' = [hostLog EXCEPT ![fileName] =
                        [calls |-> @.calls + 1, text |-> fileText]]
       /\ UNCHANGED observed
       /\ UNCHANGED <<uris, docs, scope, sink, caret, pc, cancelled, fileIdx, pos,
                      node, fileLevel, jsdocNumber, jsdocExpectedNumber,
                      workspaceEdit, messages, resolved, run, events, filesDone,
                      cancelAt, sinkFailed, threw, prevCount>>
       /\ UNCHANGED <<genVars, builderVars>>
  \/ \E fileName \in 1..Len(uris) :
       /\ files' = removeFile(fileName)
       /\ hostLog' = [hostLog EXCEPT ![fileName] = [calls |-> 0, text |-> <<>>]]
       /\ UNCHANGED observed
       /\ UNCHANGED <<uris, docs, scope, sink, caret, pc, cancelled, fileIdx, pos,
                      node, fileLevel, jsdocNumber, jsdocExpectedNumber,
                      workspaceEdit, messages, resolved, run, events, filesDone,
                      cancelAt, sinkFailed, threw, prevCount>>
       /\ UNCHANGED <<genVars, builderVars>>
  \/ \E fileName \in 1..Len(uris) :
       /\ fileExists(fileName)
       /\ observed' = [fileName |-> fileName, text |-> readFile(fileName).text,
                       version |-> getScriptVersion(fileName)]
       /\ UNCHANGED <<orchestratorVars, hostLog>>
       /\ UNCHANGED <<genVars, builderVars>>

SpecHost == InitHost /\ [][NextHost]_vars


(***************************************************************************)
(* Vocabulary of the properties.                                           *)
(***************************************************************************)
BatchedRun == scope = "workspace"
FileLikeRun == scope \in {"file", "workspace"}

\* The text of file u as it was parsed for this invocation.
Original(u) == Layout(uris[u])
NoFileModified == \A u \in 1..Len(uris) : docs[u] = Original(u)

SinkOps == {"insert", "accumulate"}
EventsOf(ops) == {i \in 1..Len(events) : events[i].op \in ops}
ApplyIssued == EventsOf({"apply"}) # {}

\* The tree of the parsed file f records a header on node n: Layout(f) has
\* it directly before the declaration of n.
CarriesHeader(f, n) ==
  IF n[2] = 0 THEN f.stmts[n[1]].doc ELSE f.stmts[n[1]].members[n[2]].doc

\* The accumulated insertions of file u.
Accumulated(u) == Cardinality(EditsOf(workspaceEdit, u))

Occurrences(text, tok) == Cardinality({i \in 1..Len(text) : text[i] = tok})

\* The text with every header that repeats a paired accessor's description
\* read as a header like the others.
AnyHeader(text) ==
  [i \in 1..Len(text) |->
     IF text[i].t = "reuse" THEN Tok("hdr", text[i].n) ELSE text[i]]

\* The headers file u has gained since it was parsed.
NewHeadersOf(u) ==
  Cardinality({n \in {docs[u][i].n : i \in 1..Len(docs[u])} :
                 Occurrences(AnyHeader(docs[u]), Tok("hdr", n))
                   > Occurrences(Original(u), Tok("hdr", n))})

RECURSIVE NewHeadersUpTo(_)
NewHeadersUpTo(u) == IF u = 0 THEN 0 ELSE NewHeadersOf(u) + NewHeadersUpTo(u - 1)

NewHeaders == NewHeadersUpTo(Len(uris))

\* Neither cancelled, nor a rejected call, nor a sink that reported failure.
CleanRun == ~cancelled /\ ~threw /\ ~sinkFailed

(***************************************************************************)
(* C1: cancellation atomicity of a Folder/Workspace scope run.             *)
(***************************************************************************)
\* C1 as stated: when cancellation is signalled after N < M files have been
\* processed, the batch is never applied, no file is modified, and the
\* accumulated count does not exceed the sum of the counts of those N files.
C1_CountWithinProcessedFiles ==
  (BatchedRun /\ cancelled /\ cancelAt < Len(uris)) =>
    /\ ~ApplyIssued
    /\ NoFileModified
    /\ jsdocExpectedNumber <= SumCounts(uris, cancelAt)

\* C1 amended: the batch is never applied and no file is modified; the
\* accumulated count does not exceed the sum of the counts of the N
\* processed files plus the headers already accumulated for file N+1, the
\* file in progress when cancellation was signalled, which are at most that
\* file's count.
C1_CancellationAtomicity ==
  (BatchedRun /\ cancelled /\ cancelAt < Len(uris)) =>
    /\ ~ApplyIssued
    /\ NoFileModified
    /\ jsdocExpectedNumber <= SumCounts(uris, cancelAt) + Accumulated(cancelAt + 1)
    /\ Accumulated(cancelAt + 1) <= FileCount(uris[cancelAt + 1])
    /\ \A u \in (cancelAt + 2)..Len(uris) : Accumulated(u) = 0

\* A run cancelled in the middle of a file, with a header already in the
\* batch that is then discarded.
C1_Witness ==
  /\ BatchedRun /\ cancelled /\ pc = "done"
  /\ cancelAt < Len(uris)
  /\ Len(workspaceEdit) > 0
  /\ jsdocExpectedNumber = Len(workspaceEdit)

(***************************************************************************)
(* C2: reverse-order insertion within one file.                            *)
(***************************************************************************)
\* The declarations of f that File scope visits: the supported statements
\* and the members of the class-like ones.
Declarations(f) ==
  {n \in UNION {{<<s, m>> : m \in 0..Len(f.stmts[s].members)} : s \in 1..Len(f.stmts)} :
     f.stmts[n[1]].kind \in {"class", "func"}}

\* The declarations of file u without a header for which no insertion has
\* been issued.
StillToProcess(u) ==
  {n \in Declarations(uris[u]) :
     /\ ~CarriesHeader(uris[u], n)
     /\ \A i \in EventsOf(SinkOps) : ~(events[i].f = u /\ events[i].n = n)}

\* f with a header on every declaration File scope visits.
Documented(f) ==
  [f EXCEPT !.stmts =
     [s \in 1..Len(f.stmts) |->
        IF f.stmts[s].kind \in {"class", "func"}
        THEN [f.stmts[s] EXCEPT
                !.doc = TRUE,
                !.members = [m \in 1..Len(f.stmts[s].members) |->
                               [f.stmts[s].members[m] EXCEPT !.doc = TRUE]]]
        ELSE f.stmts[s]]]

\* C2: within one file and with either sink, the insertion offsets are
\* strictly decreasing; no insertion is made at or before the offset of a
\* declaration still to be processed; every header in the text stands
\* directly before its own declaration, and when nothing fails the text ends
\* as the original with each missing header directly before its declaration.
C2_ReverseOrderInsertion ==
  FileLikeRun =>
    /\ \A i, j \in EventsOf(SinkOps) :
         (i < j /\ events[i].f = events[j].f) => events[i].offset > events[j].offset
    /\ \A i \in EventsOf(SinkOps) : \A n \in StillToProcess(events[i].f) :
         getStart(uris[events[i].f], n) < events[i].offset
    /\ \A u \in 1..Len(uris) : \A i \in 1..Len(docs[u]) :
         docs[u][i].t \in {"hdr", "reuse"} =>
           /\ i < Len(docs[u])
           /\ docs[u][i + 1].n = docs[u][i].n
           /\ docs[u][i + 1].t \in {"hdr", "decl"}
    /\ (pc = "done" /\ CleanRun) =>
         \A u \in 1..Len(uris) : AnyHeader(docs[u]) = Layout(Documented(uris[u]))

\* A File scope run through an editor that inserted the headers of a class
\* member, of its class and of the function before the class.
C2_Witness ==
  /\ scope = "file" /\ sink = "editor" /\ pc = "done" /\ CleanRun
  /\ jsdocNumber = 3
  /\ Len(uris[1].stmts) = 2
  /\ docs[1] # Original(1)

(***************************************************************************)
(* C3: no duplicate header.                                                *)
(***************************************************************************)
\* C3: File scope never builds or inserts a header for a declaration that
\* already has one; run on a file whose declarations all have headers it
\* inserts nothing and reports zero; a second run on the result of a first
\* run that wrote every header generates zero headers.
C3_NoDuplicateHeader ==
  FileLikeRun =>
    /\ \A i \in 1..Len(events) :
         events[i].op \in {"build", "insert", "accumulate"}
           => ~CarriesHeader(uris[events[i].f], events[i].n)
    /\ (/\ scope = "file" /\ uris[1].lang /\ uris[1].src
        /\ \A n \in Declarations(uris[1]) : CarriesHeader(uris[1], n))
         => /\ events = <<>>
            /\ NoFileModified
            /\ (pc = "done" /\ ~cancelled /\ ~threw)
                 => (messages = <<NoJsdoc>> /\ jsdocNumber = 0)
    /\ (scope = "file" /\ run > 1 /\ prevCount >= 0)
         => /\ events = <<>>
            /\ NoFileModified
            /\ (pc = "done" /\ ~cancelled /\ ~threw)
                 => (messages = <<NoJsdoc>> /\ jsdocNumber = 0)

\* The second run on a document whose first run wrote two or more headers
\* has finished.
C3_Witness ==
  /\ scope = "file" /\ run = 2 /\ prevCount >= 2
  /\ pc = "done" /\ messages = <<NoJsdoc>>

(***************************************************************************)
(* C4: one atomic batch per Folder/Workspace scope run.                    *)
(***************************************************************************)
AccumulateEvents == SelectSeq(events, LAMBDA e : e.op = "accumulate")

\* C4: every insertion of a Folder/Workspace scope run goes into the one
\* shared batch, files are processed in enumeration order, and the batch is
\* applied at most once, only after every enumerated file has been
\* processed, and never when cancellation was signalled before the apply is
\* issued; no file changes unless the apply was issued.
C4_OneAtomicBatch ==
  BatchedRun =>
    /\ EventsOf({"insert"}) = {}
    /\ Len(AccumulateEvents) = Len(workspaceEdit)
    /\ \A k \in 1..Len(workspaceEdit) :
         /\ workspaceEdit[k].uri = AccumulateEvents[k].f
         /\ workspaceEdit[k].offset = AccumulateEvents[k].offset
    /\ \A i, j \in EventsOf({"build", "accumulate"}) :
         i < j => events[i].f <= events[j].f
    /\ Cardinality(EventsOf({"apply"})) <= 1
    /\ \A i \in EventsOf({"apply"}) :
         /\ i = Len(events)
         /\ ~events[i].canc
         /\ filesDone = Len(uris)
         /\ Len(workspaceEdit) = SumCounts(uris, Len(uris))
    /\ (NoFileModified \/ ApplyIssued)

\* The batch with insertions of two files has been applied.
C4_Witness ==
  /\ BatchedRun /\ pc = "done" /\ ApplyIssued
  /\ Len(uris) = 2
  /\ EditsOf(workspaceEdit, 1) # {} /\ EditsOf(workspaceEdit, 2) # {}
  /\ docs[1] # Original(1) /\ docs[2] # Original(2)

(***************************************************************************)
(* C5: cancellation stops new work.                                        *)
(***************************************************************************)
\* C5: once cancellation has been signalled no build is started and no
\* insertion is issued (interactive insert, batch accumulate, batch apply);
\* a build in flight may complete but its result is never inserted.
C5_CancellationStopsNewWork ==
  /\ \A i \in 1..Len(events) : ~events[i].canc
  /\ cancelled => pc \in {"findFiles", "openDoc", "build", "insert", "apply", "done"}

\* The run was cancelled during a build; the build completed and the run
\* returned without issuing the insertion.
C5_Witness ==
  /\ cancelled /\ ~threw /\ pc = "done"
  /\ Len(events) > 0
  /\ events[Len(events)].op = "build"

(***************************************************************************)
(* C6: no rebuild of a documented declaration.                             *)
(***************************************************************************)
\* C6 as stated: in every scope, Position scope with the caret on a
\* documented declaration included, a declaration that already has a header
\* is never rebuilt.
C6_NeverRebuilt ==
  \A i \in 1..Len(events) :
    (events[i].n # fileNode /\ ~events[i].fl)
      => ~CarriesHeader(uris[events[i].f], events[i].n)

\* C6 amended: in File, Folder and Workspace scope a declaration that
\* already has a header is never rebuilt; in Position scope with the caret
\* on such a declaration no second header is built for it exactly when
\* nothing but whitespace precedes the caret, and then the file-level header
\* is built and inserted at offset zero instead; otherwise Position scope
\* builds a second header for the declaration.
C6_RebuiltOnlyAtPosition ==
  \A i \in 1..Len(events) :
    events[i].n # fileNode =>
      LET has == CarriesHeader(uris[events[i].f], events[i].n)
      IN /\ FileLikeRun => (~has /\ ~events[i].fl)
         /\ scope = "position" =>
              /\ events[i].fl <=> (has /\ onlyWhitespaceBefore(Original(1), caret))
              /\ (events[i].op = "insert" /\ events[i].fl) => events[i].offset = 0

\* Position scope at the top of a document whose first declaration has a
\* header: the file-level header was inserted, not a second header.
C6_Witness ==
  /\ scope = "position" /\ pc = "done" /\ CleanRun
  /\ \E i \in EventsOf({"insert"}) :
       /\ events[i].fl /\ events[i].n # fileNode
       /\ CarriesHeader(uris[1], events[i].n)
  /\ docs[1][1] = Tok("hdr", fileNode)

(***************************************************************************)
(* C7: the outcomes of Position scope.                                     *)
(***************************************************************************)
Found == supportedNode(uris[1], caret)
WhitespaceOnly == caret = 0 \/ onlyWhitespaceBefore(Original(1), caret)
WithNodeHeader(n) ==
  InsertAt(Original(1), getStart(uris[1], n), builtJsdoc(uris[1], n, FALSE))
WithFileHeader == InsertAt(Original(1), 0, Header(uris[1], fileNode))
ErrorShown == \E i \in 1..Len(messages) : messages[i].kind = "error"

\* C7 as stated: a Position scope run ends in exactly one of: (a) a
\* supported declaration is found at the caret and its own header is built
\* and inserted at its start; (b) none is found, only whitespace precedes
\* the caret, and a file-level header is inserted at offset zero; (c)
\* otherwise the unsupported-position error is shown and nothing is
\* inserted.
C7_ThreeOutcomes ==
  (scope = "position" /\ pc = "done" /\ uris[1].lang /\ CleanRun) =>
    LET found == Found
    IN /\ found # undefinedNode
            => (docs[1] = WithNodeHeader(found) /\ ~ErrorShown)
       /\ (found = undefinedNode /\ WhitespaceOnly)
            => (docs[1] = WithFileHeader /\ ~ErrorShown)
       /\ (found = undefinedNode /\ ~WhitespaceOnly)
            => (docs[1] = Original(1) /\ messages = <<UnableAtPosition>>)

\* C7 amended: outcome (b) is also the outcome when a supported declaration
\* that already has a header is found and only whitespace precedes the
\* caret; (a) is the outcome for every other supported declaration found;
\* (c) is as stated.  (a) and (b) are reached when the run is not cancelled,
\* no call rejects and the insert reports success; otherwise the document
\* is left as it was or has that one header, and an error is shown exactly
\* in case (c) and when a call rejects.
C7_OutcomesOfPosition ==
  (scope = "position" /\ pc = "done" /\ uris[1].lang) =>
    LET found == Found
        original == Original(1)
        fileCase == WhitespaceOnly
                      /\ (found = undefinedNode \/ CarriesHeader(uris[1], found))
        nodeCase == found # undefinedNode /\ ~fileCase
    IN /\ nodeCase =>
            /\ docs[1] \in {original, WithNodeHeader(found)}
            /\ CleanRun => (docs[1] = WithNodeHeader(found) /\ messages = <<>>)
       /\ fileCase =>
            /\ docs[1] \in {original, WithFileHeader}
            /\ CleanRun => (docs[1] = WithFileHeader /\ messages = <<>>)
       /\ (~nodeCase /\ ~fileCase) =>
            (docs[1] = original /\ messages = <<UnableAtPosition>>)
       /\ ErrorShown <=> (threw \/ (~nodeCase /\ ~fileCase))

\* A supported declaration with a header is found with only whitespace
\* before the caret, and the run ended with the file-level header at offset
\* zero.
C7_Witness ==
  /\ scope = "position" /\ pc = "done" /\ uris[1].lang /\ CleanRun
  /\ Found # undefinedNode
  /\ WhitespaceOnly
  /\ CarriesHeader(uris[1], Found)
  /\ docs[1] = WithFileHeader
  /\ messages = <<>>

(***************************************************************************)
(* C9: a failing sink is reported.                                         *)
(***************************************************************************)
\* C9: when the sink reports failure (an interactive insert returns false,
\* or the batch apply returns false) the run shows a warning, and a batched
\* run shows no success message for headers that were not applied.
C9_SinkFailureWarned ==
  (pc = "done" /\ sinkFailed /\ ~threw /\ ~cancelled) =>
    /\ \E i \in 1..Len(messages) : messages[i].kind = "warning"
    /\ sink = "batch" => \A i \in 1..Len(messages) : messages[i].kind # "info"

RequestFailed ==
  \/ response.kind \in {"rejected", "noChoices"}
  \/ (response.kind = "choice" /\ response.arguments.kind \in {"absent", "notJson"})

\* C8: the three generative operations never reject: a rejected request, a
\* response without choices, missing function-call arguments and arguments
\* that are not JSON all make the operation resolve with an absent value.
C8_NeverRejects ==
  (genPc = "settled" /\ requested /\ RequestFailed) => outcome = Fulfilled(Undefined)

\* describeParameters has resolved with a list.
ReturnedList ==
  /\ genPc = "settled"
  /\ call.op = "describeParameters"
  /\ outcome.state = "fulfilled"
  /\ outcome.value.type = "array"

\* The list has one entry per name, in the order of the names: the
\* description the response holds for the name, "" when it holds none.
OneEntryPerName ==
  /\ Len(outcome.value.a) = Len(call.parameters)
  /\ \A i \in 1..Len(call.parameters) :
       LET held == response.arguments.descriptions[call.parameters[i]]
       IN outcome.value.a[i] = IF held = "none" THEN "" ELSE held

\* C18 as claimed: whenever describeParameters returns a list for the names
\* n1..nk, the list has exactly k entries and entry i is the description
\* the response holds for ni, or "" when it holds none.
C18_AlwaysOneEntryPerName == ReturnedList => OneEntryPerName

\* C18: whenever describeParameters returns a list for the names n1..nk,
\* either the response's arguments hold a descriptions record and the list
\* has exactly k entries, entry i being the description held for ni or ""
\* when none is held, or they hold no descriptions record and the list is
\* empty.
C18_OneEntryPerNameOrEmpty ==
  ReturnedList
    => IF response.arguments.hasDescriptions THEN OneEntryPerName
       ELSE outcome.value.a = <<>>

\* A list was returned for two names of which the response describes the
\* second only.
C18_Witness ==
  /\ ReturnedList
  /\ Len(call.parameters) = 2
  /\ response.arguments.hasDescriptions
  /\ response.arguments.descriptions[call.parameters[1]] = "none"
  /\ response.arguments.descriptions[call.parameters[2]] # "none"
  /\ outcome.value.a = <<"", "desc">>

\* A step of one of the three operations of GenerativeAPI up to its await.
OperationStep ==
  /\ genPc \in {"idle", "settled"}
  /\ genPc' \in {"request", "settled"}
  /\ call'.op # "none"
  /\ config' = config
  /\ keyCleared' = keyCleared

\* The setting that enables the operation called (describeSnippet has none).
EnabledBySetting(c) ==
  CASE c.op = "describeParameters" ->
         IF c.generics THEN config.generateDescriptionForTypeParameters
         ELSE config.generateDescriptionForParameters
    [] c.op = "describeReturn" -> config.generateDescriptionForReturns
    [] OTHER -> TRUE

\* C19: an operation called while generativeApiKey is empty sends no
\* request and resolves with undefined, also when the key was set before
\* and has been cleared since; describeParameters and describeReturn send a
\* request only when the setting that enables them is on.
C19_NoKeyNoRequest ==
  [][OperationStep
       => /\ config.generativeApiKey = ""
               => ~requested' /\ outcome' = Fulfilled(Undefined)
          /\ requested' => EnabledBySetting(call')]_vars

\* An operation was called after the key it had been used with was cleared:
\* it sent no request and resolved with undefined.
C19_Witness ==
  /\ keyCleared
  /\ config.generativeApiKey = ""
  /\ generator = NoGenerator
  /\ genPc = "settled"
  /\ call.op = "describeParameters"
  /\ EnabledBySetting(call)
  /\ ~requested
  /\ outcome = Fulfilled(Undefined)

\* A Position or File scope invocation on a document whose languageId is not
\* one of the supported languages.
UnsupportedRun == scope \in {"position", "file"} /\ ~uris[1].lang
NotSupportedShown == \E i \in 1..Len(messages) : messages[i] = NotSupported

\* C20: when Position or File scope is invoked on a document whose language
\* is not supported, nothing changes at any moment of the invocation (no
\* header is built, no insertion goes to the editor or to a WorkspaceEdit,
\* no document is modified, and the LanguageServiceHost has no entry, hence
\* no version, it did not have before), and once the invocation has ended
\* on the opened document the "not supported" error message has been shown.
C20_UnsupportedLanguageFrame ==
  UnsupportedRun =>
    /\ events = <<>>
    /\ workspaceEdit = <<>>
    /\ jsdocNumber = 0
    /\ NoFileModified
    /\ files = [i \in 1..Len(uris) |-> NoEntry]
    /\ (pc = "done" /\ ~threw) => NotSupportedShown
\* File scope has been invoked a second time on the unsupported document
\* and has ended.
C20_Witness ==
  /\ UnsupportedRun
  /\ scope = "file"
  /\ run > 1
  /\ pc = "done"
  /\ ~threw

\* C21: File scope, and Folder/Workspace scope for each file, inserts a
\* header for a node only if the node's kind is one of the supported kinds
\* and the node does not already have a JSDoc, for the members of class-like
\* declarations as for the top-level declarations.
C21_InsertsOnlySupportedUndocumented ==
  FileLikeRun =>
    \A i \in 1..Len(events) :
      events[i].op \in SinkOps
        => /\ isNodeSupported(uris[events[i].f], events[i].n)
           /\ ~CarriesHeader(uris[events[i].f], events[i].n)

\* The awaits of the orchestrator: file enumeration, file-text acquisition,
\* a header build, an interactive insert, the batch apply.
SuspensionPoints == {"findFiles", "openDoc", "build", "insert", "apply"}

\* C23: every suspension point is followed by a cancellation check before
\* any further work: when the awaited call resolves with cancellation
\* already signalled, the invocation returns without throwing and without
\* starting a build, issuing an insertion or an apply, or updating and
\* parsing a file in the LanguageServiceHost.
C23_CheckFollowsEverySuspension ==
  [][(/\ cancelled
      /\ pc \in SuspensionPoints
      /\ pc' # pc
      /\ threw' = threw)
       => /\ pc' = "done"
          /\ events' = events
          /\ files' = files]_vars

ErrorMessages(msgs) == {i \in 1..Len(msgs) : msgs[i].kind = "error"}

\* C26: when file enumeration, the opening of a document, a header build or
\* an insertion rejects in a Folder/Workspace scope run, the run ends there:
\* the batch apply has not been and is not invoked, no file is modified,
\* exactly one error message has been shown and the promise of the run
\* resolves.
C26_FailureEndsBatchedRun ==
  [][(/\ BatchedRun
      /\ pc \in {"findFiles", "openDoc", "build", "insert"}
      /\ ~threw /\ threw')
       => /\ pc' = "done"
          /\ resolved'
          /\ ~ApplyIssued'
          /\ NoFileModified'
          /\ Cardinality(ErrorMessages(messages')) = 1]_vars
\* A build was rejected after a file had been processed and its insertions
\* accumulated: the run has ended with the error message and the files as
\* they were.
C26_Witness ==
  /\ BatchedRun /\ threw /\ pc = "done" /\ resolved
  /\ filesDone >= 1
  /\ Len(workspaceEdit) >= 1
  /\ events[Len(events)].op = "build"
  /\ messages = <<Unable>>
  /\ NoFileModified

(***************************************************************************)
(* C27: the parse taken at the start of a File scope run decides.          *)
(***************************************************************************)
\* The get and set accessors of file 1, each with the accessor paired with
\* it.
AccessorPairs ==
  {pr \in UNION {{<<(<<s, m>>), (<<s, k>>)>> : m, k \in 1..Len(uris[1].stmts[s].members)}
                 : s \in 1..Len(uris[1].stmts)} :
     /\ uris[1].stmts[pr[1][1]].members[pr[1][2]].kind \in {"get", "set"}
     /\ uris[1].stmts[pr[2][1]].members[pr[2][2]].kind \in {"get", "set"}
     /\ uris[1].stmts[pr[1][1]].members[pr[1][2]].kind
          # uris[1].stmts[pr[2][1]].members[pr[2][2]].kind}

\* The headers issued for declaration n in this run: the accumulated ones
\* and the one the document has directly before the declaration.
HeaderTokensOf(n) ==
  LET i == IndexOf(docs[1], Tok("decl", n))
  IN {e.text[1] : e \in {workspaceEdit[k] : k \in
                           {k \in 1..Len(workspaceEdit) :
                              workspaceEdit[k].offset = getStart(uris[1], n)}}}
       \cup (IF i > 1 /\ docs[1][i - 1].n = n THEN {docs[1][i - 1]} ELSE {})

\* C27: in a File scope run the declarations written are, in order, those of
\* the traversal that have no header in the parse taken at the start of the
\* run, whatever the run has inserted since; and the accessors of a get/set
\* pair of which neither has a header in that parse both receive the full
\* header, never the one that repeats the paired accessor's description.
C27_StartParseDecides ==
  (scope = "file" /\ uris[1].lang /\ uris[1].src) =>
    /\ LET todo == SelectSeq(VisitOrder(uris[1]),
                             LAMBDA n : ~CarriesHeader(uris[1], n))
           builds == SelectSeq(events, LAMBDA e : e.op = "build")
       IN /\ Len(builds) <= Len(todo)
          /\ \A k \in 1..Len(builds) : builds[k].n = todo[k]
          /\ (pc = "done" /\ CleanRun) => Len(builds) = Len(todo)
    /\ \A pr \in AccessorPairs :
         (~CarriesHeader(uris[1], pr[1]) /\ ~CarriesHeader(uris[1], pr[2]))
           => /\ HeaderTokensOf(pr[1]) \subseteq {Tok("hdr", pr[1])}
              /\ (pc = "done" /\ CleanRun /\ sink = "editor")
                   => HeaderTokensOf(pr[1]) = {Tok("hdr", pr[1])}

\* A File scope run through an editor has written the headers of a class
\* and of its get and set accessors, none of which had one: the getter's
\* header was built with the setter's already in the document.
C27_Witness ==
  /\ scope = "file" /\ sink = "editor" /\ pc = "done" /\ CleanRun
  /\ AccessorPairs # {}
  /\ \A pr \in AccessorPairs : ~CarriesHeader(uris[1], pr[1])
  /\ jsdocNumber = 3
  /\ docs[1][4] = Tok("hdr", <<1, 1>>)
  /\ docs[1][6] = Tok("hdr", <<1, 2>>)

(***************************************************************************)
(* C29: when the promise of generate-at-position resolves.                 *)
(***************************************************************************)
\* C29: the promise of generate-at-position has resolved only when the
\* insertion it started, of the declaration's header or of the file-level
\* header, has completed or was abandoned on cancellation, and a failure of
\* it has been reported by then.
C29_ResolvesAfterItsInsertion ==
  (scope = "position" /\ resolved) =>
    /\ pc = "done"
    /\ threw => ErrorMessages(messages) # {}

(***************************************************************************)
(* Properties of the LanguageServiceHost.                                  *)
(***************************************************************************)
\* The number a string of decimal digits denotes.
RECURSIVE NumberOf(_)
NumberOf(digits) ==
  IF digits = <<>> THEN 0
  ELSE LET last == digits[Len(digits)]
           d == CHOOSE d \in 0..9 :
                  <<"0", "1", "2", "3", "4", "5", "6", "7", "8", "9">>[d + 1] = last
       IN 10 * NumberOf(SubSeq(digits, 1, Len(digits) - 1)) + d
Digits == {"0", "1", "2", "3", "4", "5", "6", "7", "8", "9"}
\* The decimal string of a natural number: digits only, no leading zero.
IsDecimalOf(digits, value) ==
  /\ Len(digits) >= 1
  /\ \A i \in 1..Len(digits) : digits[i] \in Digits
  /\ (Len(digits) > 1 => digits[1] # "0")
  /\ NumberOf(digits) = value

\* C22: after k >= 1 updateFile calls on a file name since the name was
\* added, fileExists is true, readFile returns the text of the most recent
\* call and getScriptVersion returns the decimal string of k - 1: the first
\* call stores version 0, every further one adds exactly 1.
C22_VersionCountsUpdates ==
  \A fileName \in 1..Len(uris) :
    hostLog[fileName].calls >= 1 =>
      /\ fileExists(fileName)
      /\ readFile(fileName) = [type |-> "string", text |-> hostLog[fileName].text]
      /\ IsDecimalOf(getScriptVersion(fileName), hostLog[fileName].calls - 1)
\* A file name has been updated eleven times since it was added and has
\* another text than when it was observed at version 9, while the other
\* name is not listed.
C22_Witness ==
  /\ hostLog[1].calls = 11
  /\ getScriptVersion(1) = <<"1", "0">>
  /\ observed.fileName = 1 /\ observed.version = <<"9">>
  /\ observed.text # files[1].text
  /\ ~fileExists(2)

\* C30: whenever the stored text of a file name differs between two
\* observations at which the file is listed, the version getScriptVersion
\* reports is strictly greater at the later one, also when the file was
\* removed and added again in between.
C30_ChangedTextHasGreaterVersion ==
  LET fileName == observed.fileName
  IN (/\ fileName # 0
      /\ fileExists(fileName)
      /\ readFile(fileName).text # observed.text)
       => NumberOf(getScriptVersion(fileName)) > NumberOf(observed.version)

(***************************************************************************)
(* Properties of the headers JsdocBuilder builds.                          *)
(***************************************************************************)
\* The builder has built the JSDoc of the declaration.
Built == snippet # <<>>

\* The JSDoc has a line with the tag.
HasLine(tag) == \E i \in DOMAIN snippet : snippet[i].tag = tag

\* The declaration is function-like: it has parameters and a return type.
FunctionLike == declaration.kind \in {"MethodDeclaration", "FunctionDeclaration"}

\* A parameter of the declaration has a function type.
FunctionTypedParameter ==
  \E i \in DOMAIN declaration.parameters :
    declaration.parameters[i].type.kind = "FunctionType"

\* C11: the JSDoc of a function-like declaration has a return line if and
\* only if the declaration's return type is not void, whether the return
\* type is written as an annotation or taken from the signature the type
\* checker prints, signatures with function-typed parameters included.
C11_ReturnLineIffNotVoid ==
  (Built /\ FunctionLike)
    => (HasLine("returns") <=> declaration.type.kind # "VoidKeyword")

\* The part of C11 that holds: annotated return types, and inferred ones
\* when no parameter has a function type.
ReturnLineIffNotVoidWithoutArrows ==
  (Built /\ FunctionLike /\ (declaration.annotated \/ ~FunctionTypedParameter))
    => (HasLine("returns") <=> declaration.type.kind # "VoidKeyword")

\* The value of the JSDoc's line with the tag.
ValueOf(tag) ==
  snippet[CHOOSE i \in DOMAIN snippet : snippet[i].tag = tag].value

\* The type is a union or an intersection type.
Compound(type) == type.kind \in {"UnionType", "IntersectionType"}

\* The type text of a typed node as the JSDoc shows it.
Shown(n) == IF n.type.text = <<"any">> THEN <<"*">> ELSE n.type.text

\* The rendering of a typed node's type in braces, in parentheses or not.
Braced(n, wrapped) ==
  <<"{">> \o getTypePrefix(n)
  \o (IF wrapped THEN <<"(">> \o Shown(n) \o <<")">> ELSE Shown(n))
  \o <<"}">>

\* C12: the type text of a typed node is rendered in parentheses if and only
\* if the type is a union or intersection type and the setting
\* includeParenthesisForMultipleTypes is on or the node has a prefix
\* (checked on the type line of properties, types included).
C12_ParenthesesIffCompound ==
  (Built /\ declaration.kind = "PropertyDeclaration" /\ settings.includeTypes)
    => /\ ValueOf("type") \in {Braced(declaration, TRUE), Braced(declaration, FALSE)}
       /\ ValueOf("type") = Braced(declaration, TRUE)
            <=> /\ Compound(declaration.type)
                /\ \/ settings.includeParenthesisForMultipleTypes
                   \/ getTypePrefix(declaration) # <<>>

\* The part of C12 that holds: types whose text begins with neither '(' nor
\* '<' and has '|' or '&' only at its top level.
ParenthesesIffCompoundPlainTypes ==
  (/\ Built /\ declaration.kind = "PropertyDeclaration" /\ settings.includeTypes
   /\ declaration.type.text[1] # "("
   /\ declaration.type.kind # "TupleType")
    => (ValueOf("type") = Braced(declaration, TRUE)
          <=> /\ Compound(declaration.type)
              /\ \/ settings.includeParenthesisForMultipleTypes
                 \/ getTypePrefix(declaration) # <<>>)

\* The parameter lines of the JSDoc, in order.
ParamLines == SelectSeq(snippet, LAMBDA l : l.tag = "param")

\* Parameter i has the union type A|B.
UnionParameter(i) == declaration.parameters[i].type.text = <<"A", "|", "B">>

\* Parameter i is neither rest nor optional.
PlainParameter(i) ==
  /\ ~declaration.parameters[i].dotDotDotToken
  /\ ~declaration.parameters[i].questionToken
  /\ declaration.parameters[i].initializer = <<>>

\* C13 as claimed: a rest parameter of type A|B is rendered ...{(A|B)} with
\* includeParenthesisForMultipleTypes on and ...{A|B} with it off, a plain
\* parameter of type A|B {(A|B)} with it on and {A|B} with it off.
C13_RestOutsideBraces ==
  (Built /\ FunctionLike /\ settings.includeTypes)
    => \A i \in DOMAIN declaration.parameters :
         UnionParameter(i)
           => LET type == IF settings.includeParenthesisForMultipleTypes
                          THEN <<"{", "(", "A", "|", "B", ")", "}">>
                          ELSE <<"{", "A", "|", "B", "}">>
              IN /\ declaration.parameters[i].dotDotDotToken
                      => ParamLines[i].value = <<"...">> \o type
                 /\ PlainParameter(i) => ParamLines[i].value = type

\* C13: with includeTypes on, a rest parameter of type A|B is rendered
\* {...(A|B)} whether includeParenthesisForMultipleTypes is on or off, and
\* a parameter of type A|B that is neither rest nor optional {(A|B)} with
\* the setting on and {A|B} with it off.
C13_RestInsideBracesAlwaysWrapped ==
  (Built /\ FunctionLike /\ settings.includeTypes)
    => /\ Len(ParamLines) = Len(declaration.parameters)
       /\ \A i \in DOMAIN declaration.parameters :
            UnionParameter(i)
              => /\ declaration.parameters[i].dotDotDotToken
                      => ParamLines[i].value
                           = <<"{", "...", "(", "A", "|", "B", ")", "}">>
                 /\ PlainParameter(i)
                      => ParamLines[i].value
                           = IF settings.includeParenthesisForMultipleTypes
                             THEN <<"{", "(", "A", "|", "B", ")", "}">>
                             ELSE <<"{", "A", "|", "B", "}">>

\* A method with a rest parameter of type A|B was built with the
\* parentheses setting off, and one with a plain parameter of that type.
C13_Witness ==
  /\ Built /\ FunctionLike /\ settings.includeTypes
  /\ ~settings.includeParenthesisForMultipleTypes
  /\ \E i, j \in DOMAIN declaration.parameters :
       /\ UnionParameter(i) /\ declaration.parameters[i].dotDotDotToken
       /\ UnionParameter(j) /\ PlainParameter(j)

\* The tags of buildJsdocModifiers.
ModifierTags ==
  {"export", "private", "protected", "public", "static", "abstract", "async",
   "readonly", "override"}

\* The tags of the custom tags stage.
CustomTags == {settings.customTags[i].tag : i \in DOMAIN settings.customTags}

\* The number of lines of the JSDoc with the tag.
CountOf(tag) == Cardinality({i \in DOMAIN snippet : snippet[i].tag = tag})

\* The JSDoc of a set accessor was built whose get accessor has a JSDoc.
SetterOfDocumentedGetter ==
  /\ Built
  /\ declaration.kind = "SetAccessor"
  /\ declaration.paired.present
  /\ declaration.paired.hasJsdoc

\* The JSDoc opens with the description of the paired accessor's JSDoc
\* (the description placeholder when that JSDoc has none) and has neither
\* a modifier line nor a type line.
ReusesPairedDescription ==
  /\ snippet[1] = Text("/**")
  /\ snippet[2].tag = ""
  /\ snippet[2].extra = <<IF declaration.paired.description # ""
                          THEN declaration.paired.description
                          ELSE settings.descriptionPlaceholder>>
  /\ \A i \in DOMAIN snippet : snippet[i].tag \notin ModifierTags \cup {"type"}

\* C14 as claimed: the JSDoc built for the setter of a pair whose getter
\* has a JSDoc has the getter's description, exactly one inherit-pointer
\* line, no modifier line and no type line.
C14_SingleInheritPointer ==
  SetterOfDocumentedGetter
    => ReusesPairedDescription /\ CountOf("inheritdoc") = 1

\* C14: the JSDoc built for the setter of a pair whose getter has a JSDoc
\* has the getter's description and no other line than the configured
\* custom tags: no inherit-pointer line, no modifier line, no type line.
C14_DescriptionReusedNothingElse ==
  SetterOfDocumentedGetter
    => /\ ReusesPairedDescription
       /\ \A i \in 3..(Len(snippet) - 1) : snippet[i].tag \in CustomTags
       /\ snippet[Len(snippet)] = Text("*/")

\* The setter has modifiers and its getter's JSDoc a description.
C14_Witness ==
  /\ SetterOfDocumentedGetter
  /\ declaration.paired.description # ""
  /\ declaration.modifiers # <<>>
  /\ settings.includeTypes

\* C15: a function whose one parameter is destructured, ({x, y = 1}), gets
\* exactly three parameter lines, in this order: the synthetic name param0,
\* the element param0.x, and the element y in brackets with its default.
C15_DestructuringExpansion ==
  (Built /\ FunctionLike /\ declaration.parameters = <<Destructured>>)
    => /\ Len(ParamLines) = 3
       /\ ParamLines[1].extra = <<"param0">>
       /\ ParamLines[2].extra = <<"param0.x">>
       /\ ParamLines[3].extra \in {<<"[", "param0.y", "=", "1", "]">>,
                                   <<"[", "y", "=", "1", "]">>}

\* What is built instead: one parameter line, named by the text of the
\* binding pattern.
DestructuredAsOneLine ==
  (Built /\ FunctionLike /\ declaration.parameters = <<Destructured>>)
    => /\ Len(ParamLines) = 1
       /\ ParamLines[1].extra = <<"{", "x", ",", "y", "=", "1", "}">>

\* The declaration has an explicit override modifier.
Overrides ==
  \E i \in DOMAIN declaration.modifiers : declaration.modifiers[i] = "override"

\* C16: the JSDoc of a declaration with an explicit override modifier has
\* the override line and an inherit-pointer line and no other modifier
\* line, no type line, no parameter line and no return line.
C16_OverrideCollapse ==
  (Built /\ Overrides)
    => /\ CountOf("override") = 1
       /\ CountOf("inheritdoc") = 1
       /\ \A i \in DOMAIN snippet :
            snippet[i].tag \notin (ModifierTags \ {"override"})
                                    \cup {"type", "template", "param", "returns"}

\* What is built instead: the override line among the lines of every other
\* stage, and no inherit-pointer line.
OverrideIsOneMoreModifier ==
  (Built /\ Overrides)
    => /\ CountOf("override") = 1
       /\ CountOf("inheritdoc") = 0
       /\ Len(ParamLines) = Len(declaration.parameters)
       /\ CountOf("returns") = 1

\* The stage a line of the JSDoc comes from.
StageOf(l) ==
  IF l = Text("*/") THEN "Terminator"
  ELSE IF l.tag \in {"", "date", "author"} THEN "Header"
  ELSE IF l.tag \in ModifierTags THEN "Modifiers"
  ELSE IF l.tag \in {"class", "interface", "typedef", "constructor", "enum", "type"}
       THEN "Kind"
  ELSE IF l.tag \in {"extends", "implements"} THEN "Heritage"
  ELSE IF l.tag = "template" THEN "Generics"
  ELSE IF l.tag = "param" THEN "Parameters"
  ELSE IF l.tag = "returns" THEN "Return"
  ELSE "Custom"

\* No line of the JSDoc comes before a line of an earlier stage of the order.
InOrder(order) ==
  LET place == [i \in DOMAIN snippet |->
                  CHOOSE k \in DOMAIN order : order[k] = StageOf(snippet[i])]
  IN \A i \in 1..(Len(snippet) - 1) : place[i] <= place[i + 1]

PrefixByPrecedence(n) ==
  LET order == <<"?", "!", "...", "*">>
      applies == [t \in {"?", "!", "...", "*"} |->
                    CASE t = "?" -> n.questionToken /\ n.kind # "VariableDeclaration"
                      [] t = "!" -> n.exclamationToken /\ n.kind # "Parameter"
                      [] t = "..." -> n.dotDotDotToken /\ n.kind = "Parameter"
                      [] t = "*" -> n.asteriskToken
                                    /\ n.kind \notin {"PropertyDeclaration", "Parameter",
                                                      "VariableDeclaration"}]
      first == {i \in 1..4 : applies[order[i]] /\ \A j \in 1..(i - 1) : ~applies[order[j]]}
  IN IF first = {} THEN <<>> ELSE <<order[CHOOSE i \in first : TRUE]>>

\* The typed node is written with the type A.
OfTypeA(n) == n.annotated /\ n.type.text = <<"A">>

\* C24: the prefix of a typed node is exactly one of '?', '!', '...', '*' or
\* empty, the first in that order among the tokens applicable to the node's
\* kind (checked on the type line of properties, variables and accessors
\* and on the parameter lines, for nodes of type A).
C24_PrefixByPrecedence ==
  (Built /\ settings.includeTypes) =>
    /\ (declaration.kind \in {"PropertyDeclaration", "VariableDeclaration", "GetAccessor"}
        /\ OfTypeA(declaration) /\ HasLine("type"))
         => ValueOf("type") = <<"{">> \o PrefixByPrecedence(declaration) \o <<"A", "}">>
    /\ \A i \in DOMAIN declaration.parameters :
         OfTypeA(declaration.parameters[i])
           => ParamLines[i].value
                = <<"{">> \o PrefixByPrecedence(declaration.parameters[i]) \o <<"A", "}">>
\* The header of a method whose parameter has the optional, the rest and
\* the generator token has been built: the prefix is '?'.
C24_Witness ==
  /\ Built /\ settings.includeTypes
  /\ declaration.kind = "MethodDeclaration"
  /\ Len(declaration.parameters) = 1
  /\ declaration.parameters[1].questionToken
  /\ declaration.parameters[1].dotDotDotToken
  /\ declaration.parameters[1].asteriskToken
  /\ ParamLines[1].value = <<"{", "?", "A", "}">>

\* A content line with nothing but white space after its asterisk: the line
\* buildJsdocLine() appends, or a description line without a description.
BlankContent(l) == l.tag = "" /\ (l.extra = <<>> \/ l.extra = <<"">>)

\* A description text has been written into the header.
DescriptionEmitted ==
  IF declaration.kind = "Constructor"
  THEN settings.descriptionForConstructors # "" /\ declaration.className # <<>>
  ELSE \/ settings.descriptionPlaceholder # ""
       \/ /\ declaration.kind \in {"GetAccessor", "SetAccessor"}
          /\ declaration.paired.present /\ declaration.paired.hasJsdoc
          /\ declaration.paired.description # ""

\* C25: for every kind and every configuration, a finished header in which
\* no description text was emitted has no blank content line directly after
\* the opening delimiter, none directly before the terminator, and ends
\* with exactly one terminator line.
C25_NoDanglingBlankLine ==
  (Built /\ ~DescriptionEmitted) =>
    /\ ~BlankContent(snippet[2])
    /\ ~BlankContent(snippet[Len(snippet) - 1])
    /\ snippet[Len(snippet)] = Text("*/")
    /\ \A i \in 1..(Len(snippet) - 1) : snippet[i] # Text("*/")

(***************************************************************************)
(* C28: the two sinks and the text of a header.                            *)
(***************************************************************************)
\* C28: for the header built, the text the batched sink accumulates is the
\* text the interactive sink leaves in the document: each placeholder as its
\* plain text, and neither snippet markup nor an escape character in it.
C28_SinksLeaveSameText ==
  snippet # <<>> =>
    /\ insert("batch", snippet) = insert("editor", snippet)
    /\ \A i \in 1..Len(insert("batch", snippet)) :
         insert("batch", snippet)[i] \notin {"${", "\\"}

=============================================================================
